---- MODULE Spec2Model ----
(***************************************************************************)
(* A model of heat/core/operations.py: the dispatch layer that applies     *)
(* reductions, binary and unary elementwise operations, the comparison     *)
(* equal, argmin, clipping, triangular extraction, transpose and copy to   *)
(* a tensor whose data is partitioned along at most one split axis over    *)
(* the processes of a communicator.  Every process runs the same call on   *)
(* its own local slice (SPMD); the only interaction between processes is   *)
(* the blocking Allreduce of __reduce_op.                                  *)
(*                                                                         *)
(* Conventions.  Python's None is the empty tuple <<>> and a present value *)
(* v is <<v>>.  Axes and indices are 0-based as in the source; position a  *)
(* of a shape is shape[a + 1].  A local torch tensor is a record           *)
(* [shape, at] with at a function from index tuples to integers.           *)
(***************************************************************************)
EXTENDS Integers, Sequences, FiniteSets, TLC

VARIABLES nprocs, call, xh, yh, oh, pc, partial, res, err, ncoll

vars == <<nprocs, call, xh, yh, oh, pc, partial, res, err, ncoll>>

(* ------------------------------ bounds -------------------------------- *)
MaxProcs == 2
MaxExtent == 2
MaxSeed == 1
ValMod == 3
MaxK == 2
MaxBinExtent == 3
MaxTriExtent == 3
ScalarValue == 2
MaxTransExtent == 2

(* --------------------------- small helpers ---------------------------- *)
None == <<>>
Some(v) == <<v>>
IsNone(o) == o = <<>>
Get(o) == o[1]

Ranks == 0 .. (nprocs - 1)

RECURSIVE ProdSeq(_)
ProdSeq(s) == IF s = <<>> THEN 1 ELSE Head(s) * ProdSeq(Tail(s))

RECURSIVE SumSet(_)
SumSet(S) == IF S = {} THEN 0 ELSE LET e == CHOOSE e \in S : TRUE IN e[2] + SumSet(S \ {e})

MinSet(S) == CHOOSE m \in S : \A e \in S : m <= e
MaxSet(S) == CHOOSE m \in S : \A e \in S : m >= e
MaxOfSeq(s) == IF s = <<>> THEN 0 ELSE MaxSet({s[i] : i \in 1 .. Len(s)})

(* all index tuples of a tensor of the given shape *)
Idx(shape) ==
    {i \in [1 .. Len(shape) -> 0 .. (MaxOfSeq(shape) - 1)] : \A d \in 1 .. Len(shape) : i[d] < shape[d]}

(* row-major position of an index tuple *)
RECURSIVE Lin(_, _)
Lin(i, shape) ==
    IF i = <<>> THEN 0
    ELSE Lin(SubSeq(i, 1, Len(i) - 1), SubSeq(shape, 1, Len(shape) - 1)) * shape[Len(shape)] + i[Len(i)]

SetAt(s, a, v) == [s EXCEPT ![a + 1] = v]

(* ------------------- stride_tricks / communication -------------------- *)
(* sanitize_axis(shape, axis): None stays None, a negative axis wraps     *)
(* around, an axis outside [-rank, rank) is rejected.                     *)
AxisInRange(shape, axis) == IsNone(axis) \/ (Get(axis) >= -Len(shape) /\ Get(axis) < Len(shape))

sanitize_axis(shape, axis) ==
    IF IsNone(axis) THEN None
    ELSE IF Get(axis) < 0 THEN Some(Get(axis) + Len(shape)) ELSE axis

(* comm.chunk(shape, split) of rank r in a communicator of size p *)
chunk(shape, split, r, p) ==
    IF IsNone(split) THEN [offset |-> 0, lshape |-> shape]
    ELSE LET size == shape[Get(split) + 1]
             base == size \div p
             remainder == size % p
             c == IF remainder > r THEN base + 1 ELSE base
             start == IF remainder > r THEN r * c ELSE r * c + remainder
         IN [offset |-> start, lshape |-> SetAt(shape, Get(split), c)]

is_distributed(p) == p > 1

(* ------------------------- input tensors ------------------------------ *)
Val(seed, i) == (i * (seed + 1) + seed * seed + 1) % ValMod

(* the global array of a logical tensor: index tuple -> value *)
GlobalAt(gshape, seed) == [i \in Idx(gshape) |-> Val(seed, Lin(i, gshape))]

(* the slice of a global array that rank r holds *)
LocalArray(gshape, gat, split, r, p) ==
    LET c == chunk(gshape, split, r, p)
    IN [shape |-> c.lshape,
        at |-> [i \in Idx(c.lshape) |->
                  IF IsNone(split) THEN gat[i]
                  ELSE gat[SetAt(i, Get(split), i[Get(split) + 1] + c.offset)]]]

(* tensor.tensor(array, gshape, dtype, split, device, comm) *)
tensor(array, gshape, dtype, split, device, comm) ==
    [array |-> array, gshape |-> gshape, dtype |-> dtype, split |-> split,
     device |-> device, comm |-> comm]

NoArray == [shape |-> <<0>>, at |-> <<>>]
NoTensor == tensor(NoArray, <<0>>, "none", None, "none", "none")

MakeTensor(gshape, seed, split, dtype, r, p) ==
    tensor(LocalArray(gshape, GlobalAt(gshape, seed), split, r, p), gshape, dtype, split, "cpu", "world")

Shapes == UNION {[1 .. n -> 1 .. MaxExtent] : n \in 1 .. 2}
Splits(gshape) == {None} \cup {Some(a) : a \in 0 .. (Len(gshape) - 1)}
DTypes == {"int32", "float32"}
Seeds == 0 .. MaxSeed


(* --------------------------- local compute ---------------------------- *)
(* The torch reductions handed to __reduce_op as partial_op.  A set of    *)
(* <<position, value>> pairs is reduced; the reduction of no element is   *)
(* the identity of the operation (the contract of the local compute       *)
(* facade for zero-length slices).                                        *)
PosInf == ValMod * (MaxExtent + 1) * (MaxExtent + 1) * (MaxProcs + 1)
NegInf == -PosInf

ReduceVals(kind, S) ==
    CASE kind = "sum" -> SumSet(S)
      [] kind = "min" -> IF S = {} THEN PosInf ELSE MinSet({e[2] : e \in S})
      [] kind = "max" -> IF S = {} THEN NegInf ELSE MaxSet({e[2] : e \in S})
      [] kind = "all" -> IF \A e \in S : e[2] # 0 THEN 1 ELSE 0

(* partial_op(x._tensor__array).reshape((1,)) *)
ReduceAll(kind, arr) ==
    [shape |-> <<1>>,
     at |-> [i \in Idx(<<1>>) |-> ReduceVals(kind, {<<j, arr.at[j]>> : j \in Idx(arr.shape)})]]

(* partial_op(x._tensor__array, axis, keepdim=True) *)
ReduceAxis(kind, arr, a) ==
    LET shape == SetAt(arr.shape, a, 1)
    IN [shape |-> shape,
        at |-> [i \in Idx(shape) |->
                  ReduceVals(kind, {<<j, arr.at[SetAt(i, a, j)]>> : j \in 0 .. (arr.shape[a + 1] - 1)})]]

partial_op(kind, arr, axis) ==
    IF IsNone(axis) THEN ReduceAll(kind, arr) ELSE ReduceAxis(kind, arr, Get(axis))

(* types.canonical_heat_type(partial.dtype): torch.sum accumulates        *)
(* integers in int64, min/max keep the type, byte().all() yields uint8.   *)
ReducedDtype(kind, dtype) ==
    CASE kind = "sum" -> IF dtype = "int32" THEN "int64" ELSE dtype
      [] kind \in {"min", "max"} -> dtype
      [] kind = "all" -> "uint8"

(* ------------------------------ __reduce_op --------------------------- *)
ReduceKinds == {"sum", "min", "max", "all"}

(* mutant: the reduced axis keeps its extent *)
M_output_shape(gshape, axis) ==
    IF IsNone(axis) THEN <<1>> ELSE gshape

(* output_shape of lines 1098-1103 *)
output_shape(gshape, axis) ==
    IF IsNone(axis) THEN <<1>> ELSE SetAt(gshape, Get(axis), 1)

(* mutant: the guard forgets that an unsplit tensor needs no collective *)
M_NeedsReduction(x, axis) ==
    IsNone(axis) \/ axis = x.split

(* the condition of line 1110 that guards the collective *)
NeedsReduction(x, axis) ==
    ~IsNone(x.split) /\ (IsNone(axis) \/ axis = x.split)

(* mutant: the result of a full reduction keeps the split axis *)
M_ReduceSplit(x, axis) ==
    IF ~IsNone(x.split) /\ axis = x.split THEN None ELSE x.split

(* the local variable split of lines 1096 and 1111 *)
ReduceSplit(x, axis) ==
    IF NeedsReduction(x, axis) THEN None ELSE x.split

(* the buffer partial[0] handed to Allreduce: of a tensor the entries     *)
(* whose first index is 0; of the (values, indices) pair that torch.min   *)
(* returns for argmin, the values as a whole                              *)
InSendBuffer(kind, i) == kind = "argmin" \/ i[1] = 0

(* MPI.SUM, MPI.MIN, MPI.MAX, MPI.LAND *)
reduction_op(kind) == IF kind = "argmin" THEN "min" ELSE kind

(* x.comm.Allreduce(MPI.IN_PLACE, partial[0], reduction_op): every rank's *)
(* buffer is replaced by the combination of all ranks' buffers; what lies *)
(* outside the buffer keeps the local value.                              *)
Allreduce(kind, parts, r) ==
    [shape |-> parts[r].shape,
     at |-> [i \in Idx(parts[r].shape) |->
               IF InSendBuffer(kind, i)
               THEN ReduceVals(reduction_op(kind), {<<q, parts[q].at[i]>> : q \in DOMAIN parts})
               ELSE parts[r].at[i]]]

(* mutant: the validation also looks at the local slice and rejects an   *)
(* empty one                                                              *)
M_ReduceError(x, outKind, o, axis) ==
    IF outKind = "nontensor" THEN "TypeError"
    ELSE IF ~AxisInRange(x.gshape, axis) THEN "ValueError"
    ELSE IF \E d \in 1 .. Len(x.array.shape) : x.array.shape[d] = 0 THEN "RuntimeError"
    ELSE IF outKind = "tensor" /\ o.gshape # output_shape(x.gshape, sanitize_axis(x.gshape, axis))
         THEN "ValueError"
    ELSE ""

(* the error __reduce_op raises in lines 1089-1107, "" if none *)
ReduceError(x, outKind, o, axis) ==
    IF outKind = "nontensor" THEN "TypeError"
    ELSE IF ~AxisInRange(x.gshape, axis) THEN "ValueError"
    ELSE IF outKind = "tensor" /\ o.gshape # output_shape(x.gshape, sanitize_axis(x.gshape, axis))
         THEN "ValueError"
    ELSE ""

(* lines 1115-1131: the handle __reduce_op hands back, built from the     *)
(* (combined) partial result; with an out handle its fields are replaced. *)
ReduceResult(x, kind, axis, part) ==
    tensor(part, output_shape(x.gshape, axis), ReducedDtype(kind, x.dtype),
           ReduceSplit(x, axis), x.device, x.comm)

(* mutant: the communicator of the out handle is left as it was *)
M_ReduceOut(o, x, kind, axis, part) ==
    [o EXCEPT !.array = part, !.dtype = ReducedDtype(kind, x.dtype),
              !.split = ReduceSplit(x, axis), !.device = x.device]

ReduceOut(o, x, kind, axis, part) ==
    [o EXCEPT !.array = part, !.dtype = ReducedDtype(kind, x.dtype),
              !.split = ReduceSplit(x, axis), !.device = x.device, !.comm = x.comm]

(* ------------------------------ __binary_op --------------------------- *)
(* stride_tricks.broadcast_shape(a, b): the shapes are aligned at their   *)
(* last axis; two extents are compatible when equal or when one is 1.     *)
Extent(shape, n, d) ==
    IF d <= n - Len(shape) THEN 1 ELSE shape[d - (n - Len(shape))]

Broadcastable(a, b) ==
    LET n == IF Len(a) > Len(b) THEN Len(a) ELSE Len(b)
    IN \A d \in 1 .. n :
          \/ Extent(a, n, d) = 1
          \/ Extent(b, n, d) = 1
          \/ Extent(a, n, d) = Extent(b, n, d)

broadcast_shape(a, b) ==
    LET n == IF Len(a) > Len(b) THEN Len(a) ELSE Len(b)
    IN [d \in 1 .. n |->
          IF Extent(a, n, d) = 1 THEN Extent(b, n, d) ELSE Extent(a, n, d)]

(* the element of an array of the given shape that index i of the         *)
(* broadcast shape reads                                                  *)
Project(i, shape) ==
    [d \in 1 .. Len(shape) |->
        IF shape[d] = 1 THEN 0 ELSE i[d + (Len(i) - Len(shape))]]

RECURSIVE Gcd(_, _)
Gcd(a, b) == IF b = 0 THEN a ELSE Gcd(b, a % b)

RECURSIVE Power(_, _)
Power(a, b) == IF b = 0 THEN 1 ELSE a * Power(a, b - 1)

Bool(b) == IF b THEN 1 ELSE 0

(* the torch element kernels handed to __binary_op; a quotient is kept    *)
(* exact as <<numerator, denominator>> in lowest terms                    *)
Apply(op, a, b) ==
    CASE op = "add" -> a + b
      [] op = "sub" -> a - b
      [] op = "mul" -> a * b
      [] op = "div" -> IF a = 0 /\ b = 0 THEN <<0, 0>>
                       ELSE <<a \div Gcd(a, b), b \div Gcd(a, b)>>
      [] op = "pow" -> Power(a, b)
      [] op = "eq" -> Bool(a = b)
      [] op = "ne" -> Bool(a # b)
      [] op = "lt" -> Bool(a < b)
      [] op = "le" -> Bool(a <= b)
      [] op = "gt" -> Bool(a > b)
      [] op = "ge" -> Bool(a >= b)

BinOps == {"add", "sub", "div", "mul", "pow", "eq", "ne", "lt", "le", "gt", "ge"}

(* operation(t1._tensor__array, t2._tensor__array) of line 1225: torch    *)
(* broadcasts the two local arrays against each other                     *)
operation(op, A, B) ==
    LET shape == broadcast_shape(A.shape, B.shape)
    IN [shape |-> shape,
        at |-> [i \in Idx(shape) |-> Apply(op, A.at[Project(i, A.shape)], B.at[Project(i, B.shape)])]]

(* tensor.array([v]) of a numeric scalar: one element, unsplit *)
array(v, dtype) ==
    tensor([shape |-> <<1>>, at |-> [i \in Idx(<<1>>) |-> v]], <<1>>, dtype, None, "cpu", "world")

(* t.astype(dtype): a new handle of the given type; the values of the     *)
(* model are integral and every type of the model holds them as they are  *)
astype(t, dtype) == [t EXCEPT !.dtype = dtype]

(* mutant: the test compares the split of the second operand with itself *)
M_SplitsCompatible(t1, t2) ==
    IsNone(t2.split) \/ t2.split = t2.split

(* the test of line 1202 that lets two tensors through *)
SplitsCompatible(t1, t2) ==
    IsNone(t2.split) \/ t2.split = t1.split

(* the error __binary_op raises before the local compute call of line     *)
(* 1225, "" if none; k1 and k2 tell what the operands are: a tensor, a    *)
(* numeric scalar, a scalar that is no number, or anything else           *)
BinaryError(k1, k2, t1, t2) ==
    IF k1 \in {"scalar", "badscalar"}
    THEN IF k1 = "badscalar" THEN "TypeError"
         ELSE IF k2 = "badscalar" THEN "TypeError"
         ELSE IF k2 = "other" THEN "TypeError"
         ELSE ""
    ELSE IF k1 = "tensor"
    THEN IF k2 = "badscalar" THEN "TypeError"
         ELSE IF k2 = "scalar" THEN ""
         ELSE IF k2 = "tensor"
              THEN IF ~Broadcastable(t1.gshape, t2.gshape) THEN "ValueError"
                   ELSE IF ~SplitsCompatible(t1, t2) THEN "NotImplementedError"
                   ELSE ""
         ELSE "TypeError"
    ELSE "NotImplementedError"

(* the output metadata of lines 1171-1180 and 1216-1219 *)
BinaryOutput(k1, k2, t1, t2) ==
    IF k1 = "scalar"
    THEN IF k2 = "scalar"
         THEN [shape |-> <<1>>, split |-> None, device |-> "none", comm |-> "none"]
         ELSE [shape |-> t2.gshape, split |-> t2.split, device |-> t2.device, comm |-> t2.comm]
    ELSE [shape |-> t1.gshape, split |-> t1.split, device |-> t1.device, comm |-> t1.comm]

(* mutant: a scalar first operand keeps its own dtype *)
M_CastFirst(k1, t1, t2) == t1

(* the operands after the cast of lines 1185-1186 and 1213-1214 *)
CastFirst(k1, t1, t2) ==
    IF k1 = "scalar" /\ t1.dtype # t2.dtype THEN astype(t1, t2.dtype) ELSE t1

CastSecond(k1, t1, t2) ==
    IF k1 = "tensor" /\ t2.dtype # t1.dtype THEN astype(t2, t1.dtype) ELSE t2

(* lines 1158-1227 on one rank: [err, h] with h the returned handle *)
binary_op(op, k1, k2, t1, t2) ==
    LET e == BinaryError(k1, k2, t1, t2)
        c1 == CastFirst(k1, t1, t2)
        c2 == CastSecond(k1, t1, t2)
        o == BinaryOutput(k1, k2, t1, t2)
    IN IF e # "" THEN [err |-> e, h |-> NoTensor]
       ELSE IF ~Broadcastable(c1.array.shape, c2.array.shape) THEN [err |-> "RuntimeError", h |-> NoTensor]
       ELSE [err |-> "",
             h |-> tensor(operation(op, c1.array, c2.array), o.shape, c1.dtype, o.split, o.device, o.comm)]

(* ------------------------------- __tri_op ----------------------------- *)
(* torch.tril / torch.triu on one matrix element at (row, col): tril      *)
(* keeps the elements on and below diagonal k, triu those on and above    *)
Keeps(kind, k, row, col) ==
    IF kind = "tril" THEN col - row <= k ELSE col - row >= k

(* op(matrix, k) applied to the trailing two axes of an array *)
triangle(kind, arr, k) ==
    LET n == Len(arr.shape)
    IN [shape |-> arr.shape,
        at |-> [i \in Idx(arr.shape) |-> IF Keeps(kind, k, i[n - 1], i[n]) THEN arr.at[i] ELSE 0]]

(* mutant: the local vector is repeated as many times as it is long *)
M_expand(arr, rows) ==
    [shape |-> <<arr.shape[1], arr.shape[1]>>,
     at |-> [i \in Idx(<<arr.shape[1], arr.shape[1]>>) |-> arr.at[<<i[2]>>]]]

(* m._tensor__array.expand(m.shape[0], -1): the local vector repeated as  *)
(* the rows of a matrix with as many rows as the global vector is long    *)
expand(arr, rows) ==
    [shape |-> <<rows, arr.shape[1]>>,
     at |-> [i \in Idx(<<rows, arr.shape[1]>>) |-> arr.at[<<i[2]>>]]]

(* mutant: the correction of k is applied with the signs exchanged *)
M_local_k(k, dimensions, split, offset) ==
    IF IsNone(split) THEN k
    ELSE IF Get(split) + 1 = dimensions - 1 THEN k - offset
    ELSE IF Get(split) = dimensions - 1 THEN k + offset
    ELSE k

(* lines 638-643: k as seen from the local slice *)
local_k(k, dimensions, split, offset) ==
    IF IsNone(split) THEN k
    ELSE IF Get(split) + 1 = dimensions - 1 THEN k + offset
    ELSE IF Get(split) = dimensions - 1 THEN k - offset
    ELSE k

(* original[index] for index = partial_index + (slice(None), slice(None)) *)
(* of line 652: the matrix at the leading indices lead                    *)
matrix_at(arr, lead) ==
    LET n == Len(arr.shape)
        shape == SubSeq(arr.shape, n - 1, n)
    IN [shape |-> shape, at |-> [i \in Idx(shape) |-> arr.at[lead \o i]]]

(* mutant: the slices after the first one along each leading axis are     *)
(* left as the clone of line 635 holds them                               *)
M_tri_slices(kind, arr, k) ==
    LET n == Len(arr.shape)
    IN [shape |-> arr.shape,
        at |-> [i \in Idx(arr.shape) |->
                  IF \A d \in 1 .. (n - 2) : i[d] = 0
                  THEN triangle(kind, matrix_at(arr, SubSeq(i, 1, n - 2)), k).at[SubSeq(i, n - 1, n)]
                  ELSE arr.at[i]]]

(* lines 649-653: op is applied to the matrix at every tuple of leading   *)
(* local indices and written to the same place of the output              *)
tri_slices(kind, arr, k) ==
    LET n == Len(arr.shape)
    IN [shape |-> arr.shape,
        at |-> [i \in Idx(arr.shape) |->
                  triangle(kind, matrix_at(arr, SubSeq(i, 1, n - 2)), k).at[SubSeq(i, n - 1, n)]]]

(* lines 610-655 on rank r of p: [err, h] *)
tri_op(kind, mkind, m, k, r, p) ==
    IF mkind # "tensor" THEN [err |-> "TypeError", h |-> NoTensor]
    ELSE LET offset == chunk(m.gshape, m.split, r, p).offset
             dimensions == Len(m.gshape)
         IN IF dimensions = 1
            THEN [err |-> "",
                  h |-> tensor(triangle(kind, expand(m.array, m.gshape[1]), k - offset),
                               <<m.gshape[1], m.gshape[1]>>, m.dtype,
                               IF IsNone(m.split) THEN None ELSE Some(1), m.device, m.comm)]
            ELSE [err |-> "",
                  h |-> tensor(IF dimensions = 2
                               THEN triangle(kind, m.array, local_k(k, dimensions, m.split, offset))
                               ELSE tri_slices(kind, m.array, local_k(k, dimensions, m.split, offset)),
                               m.gshape, m.dtype, m.split, m.device, m.comm)]

(* --------------------------------- clip ------------------------------- *)
(* torch clamp of one value; a bound that is None does not clip *)
clampv(v, amin, amax) ==
    LET lo == IF ~IsNone(amin) /\ v < Get(amin) THEN Get(amin) ELSE v
    IN IF ~IsNone(amax) /\ lo > Get(amax) THEN Get(amax) ELSE lo

clamp(arr, amin, amax) ==
    [shape |-> arr.shape, at |-> [i \in Idx(arr.shape) |-> clampv(arr.at[i], amin, amax)]]

numel(arr) == ProdSeq(arr.shape)

(* the error clip raises in lines 233-241 before it computes, "" if none *)
ClipError(akind, amin, amax, out) ==
    IF akind # "tensor" THEN "TypeError"
    ELSE IF IsNone(amin) /\ IsNone(amax) THEN "ValueError"
    ELSE IF out = "nontensor" THEN "TypeError"
    ELSE ""

(* the truth value Python takes of the torch tensor left of `and` in      *)
(* line 243: a tensor of one element is true when the element is not 0, a *)
(* tensor of several elements has none and bool() raises; for a tensor of *)
(* no element torch either answers false or raises, depending on its      *)
(* version                                                                *)
Truth(arr) ==
    IF numel(arr) > 1 THEN {"raise"}
    ELSE IF numel(arr) = 0 THEN {"raise", "false"}
    ELSE IF \A i \in Idx(arr.shape) : arr.at[i] # 0 THEN {"true"} ELSE {"false"}

(* -------------------------------- argmin ------------------------------ *)
(* torch.argmin(array): row-major position of the first minimum *)
ArgAll(arr) ==
    LET best == CHOOSE i \in Idx(arr.shape) :
                    \A j \in Idx(arr.shape) :
                        \/ arr.at[i] < arr.at[j]
                        \/ (arr.at[i] = arr.at[j] /\ Lin(i, arr.shape) <= Lin(j, arr.shape))
    IN [shape |-> <<1>>, at |-> [i \in Idx(<<1>>) |-> Lin(best, arr.shape)]]

(* the indices torch.min(array, axis, keepdim=True) returns beside the    *)
(* values: the first position of the minimum along the axis (0 where the  *)
(* local extent of the axis is 0)                                         *)
ArgAxis(arr, a) ==
    LET shape == SetAt(arr.shape, a, 1)
        n == arr.shape[a + 1]
    IN [shape |-> shape,
        at |-> [i \in Idx(shape) |->
                  IF n = 0 THEN 0
                  ELSE CHOOSE j \in 0 .. (n - 1) :
                          \A l \in 0 .. (n - 1) :
                              \/ arr.at[SetAt(i, a, j)] < arr.at[SetAt(i, a, l)]
                              \/ (arr.at[SetAt(i, a, j)] = arr.at[SetAt(i, a, l)] /\ j <= l)]]

(* --------------------------- __local_operation ------------------------ *)
(* types.promote_types(dtype, types.float32): the smallest floating type  *)
(* that holds both                                                        *)
promote_types(dtype) ==
    IF dtype = "float64" THEN "float64" ELSE "float32"

UnaryKinds == {"abs", "exp", "floor", "log", "sin", "sqrt"}

UnaryDTypes == {"int32", "float32", "float64"}

(* the torch element kernels handed to __local_operation.  abs and floor  *)
(* of an integral value are integers; the value f(v) of another kernel is *)
(* kept as a term, the integer TermBase * (position of f) + v, which is   *)
(* distinct for distinct f and v                                          *)
TermBase == 4 * (ValMod + MaxExtent * MaxExtent + 1)

KernelIndex(kind) ==
    CASE kind = "exp" -> 1
      [] kind = "log" -> 2
      [] kind = "sin" -> 3
      [] kind = "sqrt" -> 4

UnaryApply(kind, v) ==
    CASE kind = "abs" -> IF v < 0 THEN -v ELSE v
      [] kind = "floor" -> v
      [] OTHER -> TermBase * KernelIndex(kind) + v

unary(kind, arr) ==
    [shape |-> arr.shape, at |-> [i \in Idx(arr.shape) |-> UnaryApply(kind, arr.at[i])]]

(* casted.repeat(multiples) of lines 1075-1081 for an array and a buffer  *)
(* of the same rank: the array is tiled up to the broadcast shape         *)
repeat(arr, shape) ==
    [shape |-> shape,
     at |-> [i \in Idx(shape) |-> arr.at[[d \in 1 .. Len(shape) |-> i[d] % arr.shape[d]]]]]

(* the error __local_operation raises in lines 1055-1058, "" if none *)
UnaryError(xkind, outKind) ==
    IF xkind # "tensor" THEN "TypeError"
    ELSE IF outKind = "nontensor" THEN "TypeError"
    ELSE ""

(* mutant: the result keeps the dtype of x *)
M_UnaryResult(kind, x) ==
    tensor(unary(kind, x.array), x.gshape, x.dtype, x.split, x.device, x.comm)

(* lines 1066-1068: the handle returned when no out handle is given *)
UnaryResult(kind, x) ==
    tensor(unary(kind, x.array), x.gshape, promote_types(x.dtype), x.split, x.device, x.comm)

(* lines 1074-1083: the out handle after the write; torch gives the       *)
(* buffer the shape of what is written, the other fields are not touched  *)
UnaryOut(kind, x, o) ==
    [o EXCEPT !.array = repeat(unary(kind, x.array), broadcast_shape(x.array.shape, o.array.shape))]

(* lines 68-71 of abs: the result is cast to the dtype asked for *)
AbsCast(h, dt) ==
    IF IsNone(dt) THEN h ELSE [h EXCEPT !.dtype = Get(dt)]

(* ------------------------------ transpose ----------------------------- *)
(* lines 559-563: a negative entry of axes gets the rank added, once *)
normalize_axes(axes, dimensions) ==
    [d \in 1 .. Len(axes) |-> IF axes[d] < 0 THEN axes[d] + dimensions ELSE axes[d]]

(* axes.index(a.split) of line 567: the first position holding the split  *)
(* axis, None standing for the ValueError of a missing one                *)
index(axes, v) ==
    IF \E d \in 1 .. Len(axes) : axes[d] = v
    THEN Some(MinSet({d \in 1 .. Len(axes) : axes[d] = v}) - 1)
    ELSE None

(* mutant: a split tensor is always relabelled as split along axis 0 *)
M_split_first(axes, split) ==
    IF IsNone(split) THEN None ELSE Some(0)

(* mutant: the new split axis is the entry of axes at the old split axis *)
M_transposed_split(axes, split) ==
    IF IsNone(split) THEN None ELSE Some(axes[Get(split) + 1])

(* line 567 for a split axis that axes contains *)
transposed_split(axes, split) ==
    IF IsNone(split) THEN None ELSE index(axes, Get(split))

(* torch wraps a negative dimension of permute around *)
wrap(axis, dimensions) == IF axis < 0 THEN axis + dimensions ELSE axis

(* the first position at which torch's permute rejects its arguments: a   *)
(* dimension outside [-rank, rank) or one that was given before; 0 when   *)
(* it accepts them                                                        *)
PermuteBad(axes, dimensions) ==
    LET bad == {d \in 1 .. Len(axes) :
                   \/ axes[d] < -dimensions
                   \/ axes[d] >= dimensions
                   \/ \E e \in 1 .. (d - 1) : wrap(axes[e], dimensions) = wrap(axes[d], dimensions)}
    IN IF bad = {} THEN 0 ELSE MinSet(bad)

(* the error classes line 579 can leave for a rejected permute: a         *)
(* RuntimeError is re-raised as ValueError; for a dimension out of range  *)
(* torch raises RuntimeError or IndexError, depending on its version      *)
PermuteErrors(axes, dimensions) ==
    LET d == PermuteBad(axes, dimensions)
    IN IF axes[d] < -dimensions \/ axes[d] >= dimensions
       THEN {"ValueError", "IndexError"} ELSE {"ValueError"}

(* a._tensor__array.permute of line 572 for dimensions torch accepts *)
permute(arr, dims) ==
    LET shape == [d \in 1 .. Len(dims) |-> arr.shape[dims[d] + 1]]
    IN [shape |-> shape,
        at |-> [i \in Idx(shape) |->
                  arr.at[[e \in 1 .. Len(dims) |-> i[CHOOSE d \in 1 .. Len(dims) : dims[d] = e - 1]]]]]

(* the axes of lines 547-563 as handed to permute, for an axes argument   *)
(* that is None or a sequence of the right length                         *)
TransposeAxes(a, axes) ==
    LET dimensions == Len(a.gshape)
    IN IF IsNone(axes) THEN [d \in 1 .. dimensions |-> dimensions - d]
       ELSE normalize_axes(Get(axes), dimensions)

(* the error transpose raises before permute is called (lines 542-569),   *)
(* "" if none; akind and axkind tell whether a is a tensor and whether    *)
(* axes can be iterated                                                   *)
TransposeError(akind, axkind, a, axes) ==
    IF akind # "tensor" THEN "TypeError"
    ELSE IF axkind = "noniterable" THEN "ValueError"
    ELSE IF ~IsNone(axes) /\ Len(Get(axes)) # Len(a.gshape) THEN "ValueError"
    ELSE IF ~IsNone(a.split) /\ IsNone(index(TransposeAxes(a, axes), Get(a.split))) THEN "ValueError"
    ELSE ""

(* lines 572-576: the returned handle, around a view of a's data *)
TransposeResult(a, axes) ==
    LET dimensions == Len(a.gshape)
        ax == TransposeAxes(a, axes)
        dims == [d \in 1 .. dimensions |-> wrap(ax[d], dimensions)]
    IN tensor(permute(a.array, dims), [d \in 1 .. dimensions |-> a.gshape[dims[d] + 1]],
              a.dtype, transposed_split(ax, a.split), a.device, a.comm)

(* ------------------------------- state -------------------------------- *)
NoCall == [op |-> "idle", kind |-> "none", axis |-> None, out |-> "none", k |-> 0,
           t1 |-> "none", t2 |-> "none", amin |-> None, amax |-> None, oh0 |-> <<>>,
           axes |-> None, dt |-> None, x0 |-> <<>>, y0 |-> <<>>]

Zeros(shape) == [shape |-> shape, at |-> [i \in Idx(shape) |-> 0]]

(* an unsplit out buffer of the given global shape, made with another     *)
(* device and communicator than the input                                 *)
OutTensor(shape) == tensor(Zeros(shape), shape, "float32", None, "gpu", "self")

AllRanks(v) == [r \in Ranks |-> v]

Idle ==
    /\ call = NoCall
    /\ xh = AllRanks(NoTensor)
    /\ yh = AllRanks(NoTensor)
    /\ oh = AllRanks(NoTensor)
    /\ pc = AllRanks("idle")
    /\ partial = AllRanks(NoArray)
    /\ res = AllRanks(None)
    /\ err = AllRanks("")
    /\ ncoll = AllRanks(0)

Init ==
    /\ nprocs \in 1 .. MaxProcs
    /\ Idle

(* the axis arguments tried: None, every valid axis, and one too far on   *)
(* either side                                                            *)
AxisArgs(gshape) == {None} \cup {Some(a) : a \in (-Len(gshape) - 1) .. Len(gshape)}

(* the shapes of out buffers tried for a reduction: the right one and     *)
(* one with a wrong extent                                                *)
OutShapes(gshape, axis) ==
    IF AxisInRange(gshape, axis)
    THEN LET s == output_shape(gshape, sanitize_axis(gshape, axis))
         IN {s, SetAt(s, 0, s[1] + 1)}
    ELSE {<<1>>}

(* every process is handed the same reduction call on its own slice *)
CallReduce ==
    /\ call.op = "idle"
    /\ \E kind \in ReduceKinds, gshape \in Shapes, seed \in Seeds, dtype \in DTypes :
       \E split \in Splits(gshape), axis \in AxisArgs(gshape), out \in {"none", "tensor", "nontensor"} :
       \E oshape \in OutShapes(gshape, axis) :
          /\ out # "tensor" => oshape = <<1>>
          /\ oh' = [r \in Ranks |-> IF out = "tensor" THEN OutTensor(oshape) ELSE NoTensor]
          /\ xh' = [r \in Ranks |-> MakeTensor(gshape, seed, split, dtype, r, nprocs)]
          /\ call' = [NoCall EXCEPT !.op = "reduce", !.kind = kind, !.axis = axis, !.out = out, !.oh0 = oh',
                                    !.x0 = xh', !.y0 = yh]
          /\ pc' = AllRanks("called")
    /\ UNCHANGED <<nprocs, yh, partial, res, err, ncoll>>

(* lines 1115-1131 on rank r: the result is written into the out handle  *)
(* or wrapped in a new handle, and returned                               *)
ReduceReturn(r, part) ==
    /\ LET x == xh[r]
           axis == sanitize_axis(x.gshape, call.axis)
       IN IF call.out = "tensor"
          THEN /\ oh' = [oh EXCEPT ![r] = ReduceOut(oh[r], x, call.kind, axis, part)]
               /\ res' = [res EXCEPT ![r] = Some([ref |-> "out", h |-> oh'[r]])]
          ELSE /\ res' = [res EXCEPT ![r] = Some([ref |-> "new", h |-> ReduceResult(x, call.kind, axis, part)])]
               /\ UNCHANGED oh
    /\ pc' = [pc EXCEPT ![r] = "returned"]

(* __reduce_op on rank r up to its only suspension point: validation and  *)
(* the local partial result (lines 1089-1107), then either the entry into *)
(* the blocking collective (lines 1110-1113) or, when none is needed, the *)
(* rest of the function (lines 1115-1131)                                 *)
ReduceLocal(r) ==
    /\ r \in Ranks
    /\ call.op = "reduce"
    /\ pc[r] = "called"
    /\ LET x == xh[r]
           e == ReduceError(x, call.out, oh[r], call.axis)
           axis == sanitize_axis(x.gshape, call.axis)
           part == partial_op(call.kind, x.array, axis)
       IN IF e # ""
          THEN /\ err' = [err EXCEPT ![r] = e]
               /\ pc' = [pc EXCEPT ![r] = "raised"]
               /\ UNCHANGED <<partial, ncoll, oh, res>>
          ELSE /\ partial' = [partial EXCEPT ![r] = part]
               /\ IF NeedsReduction(x, axis) /\ is_distributed(nprocs)
                  THEN /\ pc' = [pc EXCEPT ![r] = "allreduce"]
                       /\ ncoll' = [ncoll EXCEPT ![r] = @ + 1]
                       /\ UNCHANGED <<oh, res>>
                  ELSE /\ ReduceReturn(r, part)
                       /\ UNCHANGED ncoll
               /\ UNCHANGED err
    /\ UNCHANGED <<nprocs, call, xh, yh>>

(* the blocking collective of line 1113 completes once every process of   *)
(* the communicator has entered it                                        *)
AllreduceComplete ==
    /\ call.op \in {"reduce", "argmin"}
    /\ \A r \in Ranks : pc[r] = "allreduce"
    /\ partial' = [r \in Ranks |-> Allreduce(call.kind, partial, r)]
    /\ pc' = AllRanks("combined")
    /\ UNCHANGED <<nprocs, call, xh, yh, oh, res, err, ncoll>>

(* the rest of __reduce_op on rank r after the collective *)
ReduceFinish(r) ==
    /\ r \in Ranks
    /\ call.op = "reduce"
    /\ pc[r] = "combined"
    /\ ReduceReturn(r, partial[r])
    /\ UNCHANGED <<nprocs, call, xh, yh, partial, err, ncoll>>

Done == \A r \in Ranks : pc[r] \in {"returned", "raised", "written", "answered"}

(* the call is over on every process; the next call starts afresh *)
Return ==
    /\ call.op # "idle"
    /\ Done
    /\ call' = NoCall
    /\ xh' = AllRanks(NoTensor)
    /\ yh' = AllRanks(NoTensor)
    /\ oh' = AllRanks(NoTensor)
    /\ pc' = AllRanks("idle")
    /\ partial' = AllRanks(NoArray)
    /\ res' = AllRanks(None)
    /\ err' = AllRanks("")
    /\ ncoll' = AllRanks(0)
    /\ UNCHANGED nprocs

(* the operands tried for a binary operation: tensors of every shape,    *)
(* split and type, numeric scalars, scalars that are no numbers (a        *)
(* string) and objects that are neither (a list)                          *)
OperandKinds == {"tensor", "scalar", "badscalar", "other"}
BinExtents == {1, MaxBinExtent - 1, MaxBinExtent}
BinShapes == UNION {[1 .. n -> BinExtents] : n \in 1 .. 2}

OperandDescs(kind) ==
    CASE kind = "tensor" ->
           {[gshape |-> g, split |-> sp, dtype |-> d] : g \in BinShapes, sp \in {None, Some(0), Some(1)}, d \in DTypes}
      [] kind = "scalar" ->
           {[gshape |-> <<1>>, split |-> None, dtype |-> d] : d \in {"int64", "float32"}}
      [] OTHER -> {[gshape |-> <<0>>, split |-> None, dtype |-> "none"]}

Operand(kind, d, seed, r) ==
    CASE kind = "tensor" -> MakeTensor(d.gshape, seed, d.split, d.dtype, r, nprocs)
      [] kind = "scalar" -> array(ScalarValue, d.dtype)
      [] OTHER -> NoTensor

(* every process is handed the same binary operation *)
CallBinary ==
    /\ call.op = "idle"
    /\ \E op \in BinOps, k1 \in OperandKinds, k2 \in OperandKinds :
       \E a \in OperandDescs(k1), b \in OperandDescs(k2) :
          /\ k1 = "tensor" /\ ~IsNone(a.split) => Get(a.split) < Len(a.gshape)
          /\ k2 = "tensor" /\ ~IsNone(b.split) => Get(b.split) < Len(b.gshape)
          /\ xh' = [r \in Ranks |-> Operand(k1, a, 0, r)]
          /\ yh' = [r \in Ranks |-> Operand(k2, b, 1, r)]
          /\ call' = [NoCall EXCEPT !.op = "binary", !.kind = op, !.t1 = k1, !.t2 = k2, !.oh0 = oh,
                                    !.x0 = xh', !.y0 = yh']
          /\ pc' = AllRanks("called")
    /\ UNCHANGED <<nprocs, oh, partial, res, err, ncoll>>

(* mutant: the cast of lines 1186 and 1214 changes the operand handle     *)
(* itself, not a copy of it                                               *)
M_BinaryOp ==
    /\ call.op = "binary"
    /\ \A r \in Ranks : pc[r] = "called"
    /\ LET out == [r \in Ranks |-> binary_op(call.kind, call.t1, call.t2, xh[r], yh[r])]
       IN /\ err' = [r \in Ranks |-> out[r].err]
          /\ pc' = [r \in Ranks |-> IF out[r].err = "" THEN "returned" ELSE "raised"]
          /\ res' = [r \in Ranks |-> IF out[r].err = "" THEN Some([ref |-> "new", h |-> out[r].h]) ELSE None]
          /\ xh' = [r \in Ranks |-> IF out[r].err = "" THEN CastFirst(call.t1, xh[r], yh[r]) ELSE xh[r]]
          /\ yh' = [r \in Ranks |-> IF out[r].err = "" THEN CastSecond(call.t1, xh[r], yh[r]) ELSE yh[r]]
    /\ UNCHANGED <<nprocs, call, oh, partial, ncoll>>

(* __binary_op on every process: the processes do not interact, each      *)
(* runs lines 1158-1227 on its own slices                                 *)
BinaryOp ==
    /\ call.op = "binary"
    /\ \A r \in Ranks : pc[r] = "called"
    /\ LET out == [r \in Ranks |-> binary_op(call.kind, call.t1, call.t2, xh[r], yh[r])]
       IN /\ err' = [r \in Ranks |-> out[r].err]
          /\ pc' = [r \in Ranks |-> IF out[r].err = "" THEN "returned" ELSE "raised"]
          /\ res' = [r \in Ranks |-> IF out[r].err = "" THEN Some([ref |-> "new", h |-> out[r].h]) ELSE None]
    /\ UNCHANGED <<nprocs, call, xh, yh, oh, partial, ncoll>>

BinaryNext ==
    \/ CallBinary
    \/ BinaryOp
    \/ Return

BinarySpec == Init /\ [][BinaryNext]_vars

(* the shapes tried: every vector and matrix, and the tensors of three     *)
(* dimensions with the extents 1, largest and one below                   *)
TriExtents == {1, MaxTriExtent - 1, MaxTriExtent}
TriShapes == UNION {[1 .. n -> 1 .. MaxTriExtent] : n \in 1 .. 2} \cup [1 .. 3 -> TriExtents]

(* every process is handed the same tril or triu call *)
CallTri ==
    /\ call.op = "idle"
    /\ \E kind \in {"tril", "triu"}, mkind \in {"tensor", "other"}, gshape \in TriShapes, seed \in Seeds :
       \E dtype \in DTypes, split \in Splits(gshape), k \in (-MaxK) .. MaxK :
          /\ mkind = "other" => (gshape = <<1>> /\ seed = 0 /\ dtype = "int32" /\ IsNone(split))
          /\ xh' = [r \in Ranks |-> IF mkind = "tensor" THEN MakeTensor(gshape, seed, split, dtype, r, nprocs)
                                    ELSE NoTensor]
          /\ call' = [NoCall EXCEPT !.op = "tri", !.kind = kind, !.k = k, !.t1 = mkind, !.oh0 = oh,
                                    !.x0 = xh', !.y0 = yh]
          /\ pc' = AllRanks("called")
    /\ UNCHANGED <<nprocs, yh, oh, partial, res, err, ncoll>>

(* __tri_op on every process: no communication, each runs lines 610-655   *)
(* on its own slice                                                       *)
TriOp ==
    /\ call.op = "tri"
    /\ \A r \in Ranks : pc[r] = "called"
    /\ LET out == [r \in Ranks |-> tri_op(call.kind, call.t1, xh[r], call.k, r, nprocs)]
       IN /\ err' = [r \in Ranks |-> out[r].err]
          /\ pc' = [r \in Ranks |-> IF out[r].err = "" THEN "returned" ELSE "raised"]
          /\ res' = [r \in Ranks |-> IF out[r].err = "" THEN Some([ref |-> "new", h |-> out[r].h]) ELSE None]
    /\ UNCHANGED <<nprocs, call, xh, yh, oh, partial, ncoll>>

TriNext ==
    \/ CallTri
    \/ TriOp
    \/ Return

TriSpec == Init /\ [][TriNext]_vars

(* an out buffer for clip: of the shape, split and type of a *)
ClipOutTensor(gshape, split, dtype, r) ==
    tensor(Zeros(chunk(gshape, split, r, nprocs).lshape), gshape, dtype, split, "cpu", "world")

(* every process is handed the same clip call *)
CallClip ==
    /\ call.op = "idle"
    /\ \E akind \in {"tensor", "other"}, gshape \in Shapes, seed \in Seeds, dtype \in DTypes :
       \E split \in Splits(gshape), amin \in {None, Some(1)}, amax \in {None, Some(0), Some(1)} :
       \E out \in {"none", "tensor", "nontensor"} :
          /\ akind = "other" => (gshape = <<1>> /\ seed = 0 /\ dtype = "int32" /\ IsNone(split))
          /\ oh' = [r \in Ranks |-> IF out = "tensor" THEN ClipOutTensor(gshape, split, dtype, r) ELSE NoTensor]
          /\ xh' = [r \in Ranks |-> IF akind = "tensor" THEN MakeTensor(gshape, seed, split, dtype, r, nprocs)
                                    ELSE NoTensor]
          /\ call' = [NoCall EXCEPT !.op = "clip", !.t1 = akind, !.amin = amin, !.amax = amax,
                                    !.out = out, !.oh0 = oh', !.x0 = xh', !.y0 = yh]
          /\ pc' = AllRanks("called")
    /\ UNCHANGED <<nprocs, yh, partial, res, err, ncoll>>

(* clip on rank r, lines 233-243 *)
Clip(r) ==
    /\ r \in Ranks
    /\ call.op = "clip"
    /\ pc[r] = "called"
    /\ LET a == xh[r]
           e == ClipError(call.t1, call.amin, call.amax, call.out)
           clamped == clamp(a.array, call.amin, call.amax)
       IN IF e # ""
          THEN /\ err' = [err EXCEPT ![r] = e]
               /\ pc' = [pc EXCEPT ![r] = "raised"]
               /\ UNCHANGED <<oh, res>>
          ELSE IF call.out = "none"
          THEN /\ res' = [res EXCEPT ![r] =
                            Some([ref |-> "new", h |-> tensor(clamped, a.gshape, a.dtype, a.split, a.device, a.comm)])]
               /\ pc' = [pc EXCEPT ![r] = "returned"]
               /\ UNCHANGED <<oh, err>>
          ELSE /\ oh' = [oh EXCEPT ![r].array = clamped]
               /\ \E t \in Truth(clamped) :
                     IF t = "raise"
                     THEN /\ err' = [err EXCEPT ![r] = "RuntimeError"]
                          /\ pc' = [pc EXCEPT ![r] = "raised"]
                          /\ UNCHANGED res
                     ELSE /\ res' = [res EXCEPT ![r] =
                                       Some([ref |-> IF t = "true" THEN "out" ELSE "array", h |-> oh'[r]])]
                          /\ pc' = [pc EXCEPT ![r] = "returned"]
                          /\ UNCHANGED err
    /\ UNCHANGED <<nprocs, call, xh, yh, partial, ncoll>>

ClipNext ==
    \/ CallClip
    \/ \E r \in 0 .. (MaxProcs - 1) : Clip(r)
    \/ Return

ClipSpec == Init /\ [][ClipNext]_vars

(* every process is handed the same argmin call *)
CallArgmin ==
    /\ call.op = "idle"
    /\ \E gshape \in Shapes, seed \in Seeds, dtype \in DTypes :
       \E split \in Splits(gshape), axis \in AxisArgs(gshape) :
          /\ xh' = [r \in Ranks |-> MakeTensor(gshape, seed, split, dtype, r, nprocs)]
          /\ call' = [NoCall EXCEPT !.op = "argmin", !.kind = "argmin", !.axis = axis, !.oh0 = oh,
                                    !.x0 = xh', !.y0 = yh]
          /\ pc' = AllRanks("called")
    /\ UNCHANGED <<nprocs, yh, oh, partial, res, err, ncoll>>

(* line 206, after __reduce_op has returned, and line 208 on rank r: the  *)
(* indices of the local torch.min are wrapped with the shape they have    *)
(* and the split of x                                                     *)
ArgminReturn(r) ==
    /\ LET x == xh[r]
           out == ArgAxis(x.array, Get(sanitize_axis(x.gshape, call.axis)))
       IN res' = [res EXCEPT ![r] =
                    Some([ref |-> "new", h |-> tensor(out, out.shape, "int64", x.split, x.device, x.comm)])]
    /\ pc' = [pc EXCEPT ![r] = "returned"]

(* argmin on rank r: lines 195-204 for axis=None; otherwise the call of   *)
(* __reduce_op in line 206 up to its collective (lines 1089-1113), and    *)
(* through to the return when no collective is needed                     *)
ArgminLocal(r) ==
    /\ r \in Ranks
    /\ call.op = "argmin"
    /\ pc[r] = "called"
    /\ LET x == xh[r]
           axis == sanitize_axis(x.gshape, call.axis)
       IN IF ~AxisInRange(x.gshape, call.axis)
          THEN /\ err' = [err EXCEPT ![r] = "ValueError"]
               /\ pc' = [pc EXCEPT ![r] = "raised"]
               /\ UNCHANGED <<partial, ncoll, res>>
          ELSE IF IsNone(axis)
          THEN IF numel(x.array) = 0
               THEN /\ err' = [err EXCEPT ![r] = "RuntimeError"]
                    /\ pc' = [pc EXCEPT ![r] = "raised"]
                    /\ UNCHANGED <<partial, ncoll, res>>
               ELSE /\ res' = [res EXCEPT ![r] =
                                 Some([ref |-> "new",
                                       h |-> tensor(ArgAll(x.array), <<1>>, "int64", None, x.device, x.comm)])]
                    /\ pc' = [pc EXCEPT ![r] = "returned"]
                    /\ UNCHANGED <<partial, ncoll, err>>
          ELSE /\ partial' = [partial EXCEPT ![r] = ReduceAxis("min", x.array, Get(axis))]
               /\ IF NeedsReduction(x, axis) /\ is_distributed(nprocs)
                  THEN /\ pc' = [pc EXCEPT ![r] = "allreduce"]
                       /\ ncoll' = [ncoll EXCEPT ![r] = @ + 1]
                       /\ UNCHANGED res
                  ELSE /\ ArgminReturn(r)
                       /\ UNCHANGED ncoll
               /\ UNCHANGED err
    /\ UNCHANGED <<nprocs, call, xh, yh, oh>>

(* the rest of argmin on rank r after the collective *)
ArgminFinish(r) ==
    /\ r \in Ranks
    /\ call.op = "argmin"
    /\ pc[r] = "combined"
    /\ ArgminReturn(r)
    /\ UNCHANGED <<nprocs, call, xh, yh, oh, partial, err, ncoll>>

ArgminNext ==
    \/ CallArgmin
    \/ \E r \in 0 .. (MaxProcs - 1) : ArgminLocal(r)
    \/ AllreduceComplete
    \/ \E r \in 0 .. (MaxProcs - 1) : ArgminFinish(r)
    \/ Return

ArgminSpec == Init /\ [][ArgminNext]_vars

(* ------------------------------ unary ops ----------------------------- *)
(* the input with every value negated *)
Negated(t) == [t EXCEPT !.array.at = [i \in DOMAIN @ |-> -@[i]]]

(* an out buffer for a unary op *)
UnaryOutTensor(gshape, split, dtype, r) ==
    tensor(Zeros(chunk(gshape, split, r, nprocs).lshape), gshape, dtype, split, "cpu", "world")

(* the global shapes of out buffers tried for a unary op: the shape of x  *)
(* and one with a larger first extent                                     *)
UnaryOutShapes(gshape) == {gshape, SetAt(gshape, 0, gshape[1] + 1)}

(* every process is handed the same unary call; only abs takes a dtype *)
CallUnary ==
    /\ call.op = "idle"
    /\ \E kind \in UnaryKinds, xkind \in {"tensor", "other"}, gshape \in Shapes, seed \in Seeds :
       \E neg \in BOOLEAN, dtype \in UnaryDTypes, split \in Splits(gshape) :
       \E out \in {"none", "tensor", "nontensor"}, oshape \in UnaryOutShapes(gshape) :
       \E osplit \in {None, split}, odtype \in {"float32", "float64"} :
       \E dt \in {None, Some("int32"), Some("nontype")} :
          /\ xkind = "other" => (gshape = <<1>> /\ seed = 0 /\ ~neg /\ dtype = "int32" /\ IsNone(split))
          /\ out # "tensor" => (oshape = gshape /\ IsNone(osplit) /\ odtype = "float32")
          /\ kind # "abs" => IsNone(dt)
          /\ xh' = [r \in Ranks |->
                      IF xkind # "tensor" THEN NoTensor
                      ELSE IF neg THEN Negated(MakeTensor(gshape, seed, split, dtype, r, nprocs))
                      ELSE MakeTensor(gshape, seed, split, dtype, r, nprocs)]
          /\ oh' = [r \in Ranks |-> IF out = "tensor" THEN UnaryOutTensor(oshape, osplit, odtype, r) ELSE NoTensor]
          /\ call' = [NoCall EXCEPT !.op = "unary", !.kind = kind, !.t1 = xkind, !.out = out, !.dt = dt,
                                    !.oh0 = oh', !.x0 = xh', !.y0 = yh]
          /\ pc' = AllRanks("called")
    /\ UNCHANGED <<nprocs, yh, partial, res, err, ncoll>>

(* __local_operation on one rank, lines 1055-1083: [err, ref, h, o] with  *)
(* h the returned handle and o the out handle after the call.  Whether    *)
(* torch writes a result into a buffer of another floating type or        *)
(* raises depends on its version (lenient).                               *)
local_operation(kind, xkind, x, outKind, o, lenient) ==
    LET e == UnaryError(xkind, outKind)
    IN IF e # "" THEN [err |-> e, ref |-> "none", h |-> NoTensor, o |-> o]
       ELSE IF outKind = "none"
       THEN [err |-> "", ref |-> "new", h |-> UnaryResult(kind, x), o |-> o]
       ELSE IF ~Broadcastable(x.array.shape, o.array.shape)
       THEN [err |-> "ValueError", ref |-> "none", h |-> NoTensor, o |-> o]
       ELSE IF \E d \in 1 .. Len(x.array.shape) : x.array.shape[d] = 0
       THEN [err |-> "ZeroDivisionError", ref |-> "none", h |-> NoTensor, o |-> o]
       ELSE IF promote_types(x.dtype) # o.dtype /\ ~lenient
       THEN [err |-> "RuntimeError", ref |-> "none", h |-> NoTensor, o |-> o]
       ELSE [err |-> "", ref |-> "out", h |-> UnaryOut(kind, x, o), o |-> UnaryOut(kind, x, o)]

(* the wrappers of lines 44-483 on one rank: abs checks its dtype first   *)
(* and casts the result of __local_operation afterwards                   *)
unary_op(kind, xkind, x, outKind, o, dt, lenient) ==
    IF dt = Some("nontype") THEN [err |-> "TypeError", ref |-> "none", h |-> NoTensor, o |-> o]
    ELSE LET l == local_operation(kind, xkind, x, outKind, o, lenient)
         IN IF l.err # "" THEN l
            ELSE [l EXCEPT !.h = AbsCast(l.h, dt), !.o = IF l.ref = "out" THEN AbsCast(l.o, dt) ELSE l.o]

(* a unary op on every process: no communication, each runs on its slice *)
LocalOperation ==
    /\ call.op = "unary"
    /\ \A r \in Ranks : pc[r] = "called"
    /\ \E lenient \in BOOLEAN :
          LET out == [r \in Ranks |->
                        unary_op(call.kind, call.t1, xh[r], call.out, oh[r], call.dt, lenient)]
          IN /\ err' = [r \in Ranks |-> out[r].err]
             /\ pc' = [r \in Ranks |-> IF out[r].err = "" THEN "returned" ELSE "raised"]
             /\ oh' = [r \in Ranks |-> out[r].o]
             /\ res' = [r \in Ranks |-> IF out[r].err = "" THEN Some([ref |-> out[r].ref, h |-> out[r].h])
                                        ELSE None]
    /\ UNCHANGED <<nprocs, call, xh, yh, partial, ncoll>>

(* ------------------------------ transpose ----------------------------- *)
TransExtents == {1, MaxTransExtent}
TransShapes == UNION {[1 .. n -> TransExtents] : n \in 1 .. 3}

(* the axes arguments tried for a tensor of rank n: every sequence of n   *)
(* entries from one below -n up to n, one sequence too long and one too   *)
(* short                                                                  *)
AxesArgs(n) ==
    [1 .. n -> (-n - 1) .. n]
      \cup {[d \in 1 .. (n + 1) |-> (d - 1) % n]}
      \cup {[d \in 1 .. (n - 1) |-> d - 1]}

(* a tensor whose global array holds a different value at every position *)
IotaTensor(gshape, split, r, p) ==
    tensor(LocalArray(gshape, [i \in Idx(gshape) |-> Lin(i, gshape)], split, r, p),
           gshape, "int32", split, "cpu", "world")

(* every process is handed the same transpose call *)
CallTranspose ==
    /\ call.op = "idle"
    /\ \E akind \in {"tensor", "other"}, axkind \in {"axes", "noniterable"}, gshape \in TransShapes :
       \E split \in Splits(gshape), axes \in {None} \cup {Some(s) : s \in AxesArgs(Len(gshape))} :
          /\ akind = "other" => (gshape = <<1>> /\ IsNone(split) /\ IsNone(axes) /\ axkind = "axes")
          /\ axkind = "noniterable" => axes = Some(<<0>>)
          /\ xh' = [r \in Ranks |-> IF akind = "tensor" THEN IotaTensor(gshape, split, r, nprocs) ELSE NoTensor]
          /\ call' = [NoCall EXCEPT !.op = "transpose", !.kind = "first", !.t1 = akind, !.t2 = axkind,
                                    !.axes = axes, !.oh0 = oh, !.x0 = xh', !.y0 = yh]
          /\ pc' = AllRanks("called")
    /\ UNCHANGED <<nprocs, yh, oh, partial, res, err, ncoll>>

(* transpose on every process, lines 542-579: no communication *)
Transpose ==
    /\ call.op = "transpose"
    /\ \A r \in Ranks : pc[r] = "called"
    /\ LET a == xh[0]
           e == TransposeError(call.t1, call.t2, a, call.axes)
       IN IF e # ""
          THEN /\ err' = AllRanks(e)
               /\ pc' = AllRanks("raised")
               /\ UNCHANGED res
          ELSE IF PermuteBad(TransposeAxes(a, call.axes), Len(a.gshape)) # 0
          THEN /\ \E pe \in PermuteErrors(TransposeAxes(a, call.axes), Len(a.gshape)) : err' = AllRanks(pe)
               /\ pc' = AllRanks("raised")
               /\ UNCHANGED res
          ELSE /\ res' = [r \in Ranks |-> Some([ref |-> "view", h |-> TransposeResult(xh[r], call.axes)])]
               /\ pc' = AllRanks("returned")
               /\ UNCHANGED err
    /\ UNCHANGED <<nprocs, call, xh, yh, oh, partial, ncoll>>

(* the permutation that undoes dims *)
inverse(dims) ==
    [e \in 1 .. Len(dims) |-> (CHOOSE d \in 1 .. Len(dims) : dims[d] = e - 1) - 1]

(* the handle a transpose has returned is transposed again: with the      *)
(* default axes after a default call, else with the inverse permutation;  *)
(* yh keeps the handle the first call was given                           *)
CallTransposeBack ==
    /\ call.op = "transpose"
    /\ call.kind = "first"
    /\ \A r \in Ranks : pc[r] = "returned"
    /\ LET n == Len(xh[0].gshape)
           ax == TransposeAxes(xh[0], call.axes)
           dims == [d \in 1 .. n |-> wrap(ax[d], n)]
       IN /\ xh' = [r \in Ranks |-> Get(res[r]).h]
          /\ yh' = xh
          /\ call' = [call EXCEPT !.kind = "back",
                                  !.axes = IF IsNone(call.axes) THEN None ELSE Some(inverse(dims)),
                                  !.x0 = xh', !.y0 = yh']
    /\ pc' = AllRanks("called")
    /\ res' = AllRanks(None)
    /\ UNCHANGED <<nprocs, oh, partial, err, ncoll>>

TransposeNext ==
    \/ CallTranspose
    \/ Transpose
    \/ CallTransposeBack
    \/ Return

TransposeSpec == Init /\ [][TransposeNext]_vars

(* -------------------------------- copy -------------------------------- *)
CallCopy ==
    /\ call.op = "idle"
    /\ \E akind \in {"tensor", "other"}, gshape \in Shapes, seed \in Seeds, dtype \in DTypes :
       \E split \in Splits(gshape) :
          /\ akind = "other" => (gshape = <<1>> /\ seed = 0 /\ dtype = "int32" /\ IsNone(split))
          /\ xh' = [r \in Ranks |-> IF akind = "tensor" THEN MakeTensor(gshape, seed, split, dtype, r, nprocs)
                                    ELSE NoTensor]
          /\ call' = [NoCall EXCEPT !.op = "copy", !.t1 = akind, !.oh0 = oh, !.x0 = xh', !.y0 = yh]
          /\ pc' = AllRanks("called")
    /\ UNCHANGED <<nprocs, yh, oh, partial, res, err, ncoll>>

(* copy on every process, lines 260-262: the data is cloned *)
Copy ==
    /\ call.op = "copy"
    /\ \A r \in Ranks : pc[r] = "called"
    /\ IF call.t1 # "tensor"
       THEN /\ err' = AllRanks("TypeError")
            /\ pc' = AllRanks("raised")
            /\ UNCHANGED res
       ELSE /\ res' = [r \in Ranks |->
                         Some([ref |-> "new",
                               h |-> tensor(xh[r].array, xh[r].gshape, xh[r].dtype, xh[r].split,
                                            xh[r].device, xh[r].comm)])]
            /\ pc' = AllRanks("returned")
            /\ UNCHANGED err
    /\ UNCHANGED <<nprocs, call, xh, yh, oh, partial, ncoll>>

(* ------------------------- writing into a result ---------------------- *)
(* what a later operation writes into a buffer of the given shape: values *)
(* that no input holds at the first position                              *)
Written(shape) ==
    [shape |-> shape, at |-> [i \in Idx(shape) |-> ValMod + MaxExtent * MaxExtent * MaxExtent + Lin(i, shape)]]

(* the array behind a permuted view after w was written into the view *)
ViewWrite(arr, dims, w) ==
    [shape |-> arr.shape,
     at |-> [j \in Idx(arr.shape) |-> w.at[[d \in 1 .. Len(dims) |-> j[dims[d] + 1]]]]]

(* A handle that was returned without an out handle is used as the out    *)
(* handle of a later call on every process; the write of line 1081 (or of *)
(* line 243) goes to the storage of its data, and so to every handle      *)
(* whose data is a view of that storage.                                  *)
WriteInPlace ==
    /\ call.op # "idle"
    /\ call.out = "none"
    /\ \A r \in Ranks : pc[r] = "returned" /\ Get(res[r]).ref \in {"new", "view"}
    /\ res' = [r \in Ranks |->
                 Some([Get(res[r]) EXCEPT !.h.array = Written(Get(res[r]).h.array.shape)])]
    /\ xh' = [r \in Ranks |->
                IF Get(res[r]).ref = "view"
                THEN LET n == Len(xh[r].gshape)
                         ax == TransposeAxes(xh[r], call.axes)
                         dims == [d \in 1 .. n |-> wrap(ax[d], n)]
                     IN [xh[r] EXCEPT !.array = ViewWrite(@, dims, Written(Get(res[r]).h.array.shape))]
                ELSE xh[r]]
    /\ pc' = AllRanks("written")
    /\ UNCHANGED <<nprocs, call, yh, oh, partial, err, ncoll>>

UnaryNext ==
    \/ CallUnary
    \/ LocalOperation
    \/ Return

UnarySpec == Init /\ [][UnaryNext]_vars

(* ------------------------------- equal -------------------------------- *)
(* the error equal raises before the comparison of line 909, "" if none:  *)
(* the operand tests of __binary_op without the broadcast of the shapes   *)
EqualError(k1, k2, t1, t2) ==
    IF k1 \in {"scalar", "badscalar"}
    THEN IF k1 = "badscalar" THEN "TypeError"
         ELSE IF k2 \in {"badscalar", "other"} THEN "TypeError"
         ELSE ""
    ELSE IF k1 = "tensor"
    THEN IF k2 = "badscalar" THEN "TypeError"
         ELSE IF k2 = "scalar" THEN ""
         ELSE IF k2 = "tensor"
              THEN IF ~SplitsCompatible(t1, t2) THEN "NotImplementedError" ELSE ""
         ELSE "TypeError"
    ELSE "NotImplementedError"

(* torch.equal(A, B): the two local arrays have the same size and the     *)
(* same elements                                                          *)
torch_equal(A, B) == A.shape = B.shape /\ A.at = B.at

(* lines 859-911 on one rank: [err, value]; the operands are compared as  *)
(* they are, without a cast, and a torch build that compares only arrays  *)
(* of one element type raises RuntimeError for two different ones         *)
equal(k1, k2, t1, t2, lenient) ==
    LET e == EqualError(k1, k2, t1, t2)
    IN IF e # "" THEN [err |-> e, value |-> FALSE]
       ELSE IF t1.dtype # t2.dtype /\ ~lenient THEN [err |-> "RuntimeError", value |-> FALSE]
       ELSE [err |-> "", value |-> torch_equal(t1.array, t2.array)]

(* every process is handed the same comparison; the two operands are      *)
(* filled independently, so that they may hold the same global values     *)
CallEqual ==
    /\ call.op = "idle"
    /\ \E k1 \in OperandKinds, k2 \in OperandKinds, s1 \in Seeds, s2 \in Seeds :
       \E a \in OperandDescs(k1), b \in OperandDescs(k2) :
          /\ k1 = "tensor" /\ ~IsNone(a.split) => Get(a.split) < Len(a.gshape)
          /\ k2 = "tensor" /\ ~IsNone(b.split) => Get(b.split) < Len(b.gshape)
          /\ xh' = [r \in Ranks |-> Operand(k1, a, s1, r)]
          /\ yh' = [r \in Ranks |-> Operand(k2, b, s2, r)]
          /\ call' = [NoCall EXCEPT !.op = "equal", !.kind = "equal", !.t1 = k1, !.t2 = k2, !.oh0 = oh,
                                    !.x0 = xh', !.y0 = yh']
          /\ pc' = AllRanks("called")
    /\ UNCHANGED <<nprocs, oh, partial, res, err, ncoll>>

(* equal on every process: the processes do not interact, each compares   *)
(* its own slices and answers with a plain boolean, not a handle          *)
Equal ==
    /\ call.op = "equal"
    /\ \A r \in Ranks : pc[r] = "called"
    /\ \E lenient \in BOOLEAN :
          LET out == [r \in Ranks |-> equal(call.t1, call.t2, xh[r], yh[r], lenient)]
          IN /\ err' = [r \in Ranks |-> out[r].err]
             /\ pc' = [r \in Ranks |-> IF out[r].err = "" THEN "answered" ELSE "raised"]
             /\ res' = [r \in Ranks |->
                          IF out[r].err = ""
                          THEN Some([ref |-> "bool", h |-> NoTensor, value |-> out[r].value])
                          ELSE None]
    /\ UNCHANGED <<nprocs, call, xh, yh, oh, partial, ncoll>>

EqualNext ==
    \/ CallEqual
    \/ Equal
    \/ Return

EqualSpec == Init /\ [][EqualNext]_vars

ReduceNext ==
    \/ CallReduce
    \/ \E r \in 0 .. (MaxProcs - 1) : ReduceLocal(r)
    \/ AllreduceComplete
    \/ \E r \in 0 .. (MaxProcs - 1) : ReduceFinish(r)
    \/ Return

ReduceSpec == Init /\ [][ReduceNext]_vars

(* every operation of the module *)
Next ==
    \/ CallReduce
    \/ \E r \in 0 .. (MaxProcs - 1) : ReduceLocal(r)
    \/ AllreduceComplete
    \/ \E r \in 0 .. (MaxProcs - 1) : ReduceFinish(r)
    \/ CallArgmin
    \/ \E r \in 0 .. (MaxProcs - 1) : ArgminLocal(r)
    \/ \E r \in 0 .. (MaxProcs - 1) : ArgminFinish(r)
    \/ CallBinary
    \/ BinaryOp
    \/ CallTri
    \/ TriOp
    \/ CallClip
    \/ \E r \in 0 .. (MaxProcs - 1) : Clip(r)
    \/ CallUnary
    \/ LocalOperation
    \/ CallTranspose
    \/ Transpose
    \/ CallTransposeBack
    \/ CallCopy
    \/ Copy
    \/ WriteInPlace
    \/ CallEqual
    \/ Equal
    \/ Return

Spec == Init /\ [][Next]_vars

(* the calls that are given no out handle: every operation with out left  *)
(* at its default None                                                    *)
CallReduceNoOut == CallReduce /\ call'.out = "none"

CallClipNoOut == CallClip /\ call'.out = "none"

CallUnaryNoOut == CallUnary /\ call'.out = "none"

NoOutNext ==
    \/ CallReduceNoOut
    \/ \E r \in 0 .. (MaxProcs - 1) : ReduceLocal(r)
    \/ AllreduceComplete
    \/ \E r \in 0 .. (MaxProcs - 1) : ReduceFinish(r)
    \/ CallArgmin
    \/ \E r \in 0 .. (MaxProcs - 1) : ArgminLocal(r)
    \/ \E r \in 0 .. (MaxProcs - 1) : ArgminFinish(r)
    \/ CallBinary
    \/ BinaryOp
    \/ CallTri
    \/ TriOp
    \/ CallClipNoOut
    \/ \E r \in 0 .. (MaxProcs - 1) : Clip(r)
    \/ CallUnaryNoOut
    \/ LocalOperation
    \/ CallTranspose
    \/ Transpose
    \/ CallCopy
    \/ Copy
    \/ Return

NoOutSpec == Init /\ [][NoOutNext]_vars

(* a step of the running call: of some process, or of the collective *)
ReduceStep ==
    \/ \E r \in 0 .. (MaxProcs - 1) : ReduceLocal(r)
    \/ AllreduceComplete
    \/ \E r \in 0 .. (MaxProcs - 1) : ReduceFinish(r)

(* the processes keep running: as long as a process can take its next     *)
(* step or the collective can complete, one of these steps is taken       *)
ReduceFairSpec ==
    /\ Init
    /\ [][ReduceNext]_vars
    /\ WF_vars(ReduceStep)

(* ------------------------ assembling the pieces ----------------------- *)
ResH(r) == Get(res[r]).h

AllReturned == \A r \in Ranks : pc[r] = "returned"

(* the rank that owns global position g of the split axis *)
Owner(gshape, split, g) ==
    CHOOSE r \in Ranks :
        LET c == chunk(gshape, split, r, nprocs)
        IN c.offset <= g /\ g < c.offset + c.lshape[Get(split) + 1]

(* the global array that the local arrays of the handles h (one per rank, *)
(* global shape gshape, split axis split) make up; an unsplit tensor is   *)
(* read from rank 0                                                       *)
Assemble(h, gshape, split) ==
    [shape |-> gshape,
     at |-> [i \in Idx(gshape) |->
               IF IsNone(split) THEN h[0].array.at[i]
               ELSE LET a == Get(split)
                        r == Owner(gshape, split, i[a + 1])
                    IN h[r].array.at[SetAt(i, a, i[a + 1] - chunk(gshape, split, r, nprocs).offset)]]]

GlobalX == Assemble(xh, xh[0].gshape, xh[0].split)
ResHandles == [r \in Ranks |-> ResH(r)]

(* the axis argument of the call, normalised as the caller reads it *)
CallAxis ==
    IF IsNone(call.axis) THEN None
    ELSE IF Get(call.axis) < 0 THEN Some(Get(call.axis) + Len(xh[0].gshape)) ELSE call.axis

(* C1: a reduction of a split tensor, assembled from the processes' local *)
(* results, has exactly the values of the same reduction of the unsplit   *)
(* array; an unsplit result holds them on every process.                  *)
C1_ReductionMatchesUnsplit ==
    (call.op = "reduce" /\ AllReturned) =>
        LET expected == partial_op(call.kind, GlobalX, CallAxis)
        IN /\ Assemble(ResHandles, ResH(0).gshape, ResH(0).split) = expected
           /\ IsNone(ResH(0).split) => \A r \in Ranks : ResH(r).array = expected

(* C6: the returned handle is unsplit when the input is unsplit, when the *)
(* axis is None or when the axis is the split axis; otherwise it keeps    *)
(* the split axis of the input.                                           *)
C6_ResultSplit ==
    \A r \in Ranks :
        (call.op = "reduce" /\ pc[r] = "returned") =>
            ResH(r).split =
                IF IsNone(xh[r].split) \/ IsNone(CallAxis) \/ CallAxis = xh[r].split
                THEN None ELSE xh[r].split

C6_Witness ==
    /\ call.op = "reduce"
    /\ AllReturned
    /\ nprocs > 1
    /\ ~IsNone(xh[0].split)
    /\ ~IsNone(CallAxis)
    /\ CallAxis # xh[0].split
    /\ ResH(0).split = xh[0].split

(* C7 as stated: with more than one process a reduction issues exactly    *)
(* one collective when the axis is None or equals the split axis of the   *)
(* tensor, split or not, and none otherwise.                              *)
C7_CollectiveIffAxis ==
    \A r \in Ranks :
        (call.op = "reduce" /\ nprocs > 1 /\ pc[r] = "returned") =>
            ncoll[r] = IF IsNone(CallAxis) \/ CallAxis = xh[r].split THEN 1 ELSE 0

(* C7 amended: with more than one process a reduction that passes its     *)
(* validation issues exactly one collective when the tensor is split and  *)
(* the axis is None or the split axis; it issues none in every other      *)
(* case: an unsplit tensor, another axis, or a call that raises.          *)
C7_CollectiveIffSplitReduced ==
    \A r \in Ranks :
        (call.op = "reduce" /\ nprocs > 1) =>
            /\ ncoll[r] <= 1
            /\ pc[r] = "raised" => ncoll[r] = 0
            /\ pc[r] \in {"allreduce", "combined", "returned"} =>
                   ncoll[r] = IF ~IsNone(xh[r].split) /\ (IsNone(CallAxis) \/ CallAxis = xh[r].split)
                              THEN 1 ELSE 0

C7_Witness ==
    /\ call.op = "reduce"
    /\ nprocs > 1
    /\ pc[0] = "returned"
    /\ IsNone(xh[0].split)
    /\ IsNone(CallAxis)
    /\ ncoll[0] = 0

(* C8: when every process runs the same reduction call, no process raises *)
(* while another has entered the collective, and every process's call     *)
(* eventually returns or raises.                                          *)
C8_NoSplitDecision ==
    ~ \E r \in Ranks, q \in Ranks : pc[r] = "raised" /\ pc[q] \in {"allreduce", "combined", "returned"}

C8_EveryCallEnds ==
    /\ []C8_NoSplitDecision
    /\ (call.op = "reduce") ~> (call.op = "reduce" /\ Done)

C8_Witness ==
    /\ call.op = "reduce"
    /\ nprocs > 1
    /\ AllReturned
    /\ \A r \in Ranks : ncoll[r] = 1
    /\ xh[0].array # xh[1].array

(* ----------------------- claims on __binary_op ------------------------ *)
BothTensors == call.op = "binary" /\ call.t1 = "tensor" /\ call.t2 = "tensor"

GlobalY == Assemble(yh, yh[0].gshape, yh[0].split)

(* C2: for two tensors of broadcastable shapes A and B, in either order,  *)
(* the returned handle has global shape broadcast(A, B) and, for          *)
(* replicated operands, the values of the op on the broadcast arrays.     *)
C2_BroadcastShape ==
    (BothTensors /\ AllReturned /\ Broadcastable(xh[0].gshape, yh[0].gshape)) =>
        \A r \in Ranks :
            /\ ResH(r).gshape = broadcast_shape(xh[0].gshape, yh[0].gshape)
            /\ (IsNone(xh[0].split) /\ IsNone(yh[0].split)) =>
                   ResH(r).array = operation(call.kind, GlobalX, GlobalY)

(* C4: two tensors whose split axes are equal, or of which at least one   *)
(* is unsplit (whichever of the two), are not rejected with               *)
(* NotImplementedError.                                                   *)
C4_CompatibleSplitsPermitted ==
    (BothTensors /\ Done
       /\ (xh[0].split = yh[0].split \/ IsNone(xh[0].split) \/ IsNone(yh[0].split))) =>
        \A r \in Ranks : err[r] # "NotImplementedError"

DifferentSplits ==
    BothTensors /\ ~IsNone(xh[0].split) /\ ~IsNone(yh[0].split) /\ xh[0].split # yh[0].split

(* C5 as stated: two tensors split along different axes always raise      *)
(* NotImplementedError and never return a handle, for every op.           *)
C5_DifferentSplitsNotImplemented ==
    (DifferentSplits /\ Done) =>
        \A r \in Ranks : err[r] = "NotImplementedError" /\ IsNone(res[r])

(* C5 amended: two tensors split along different axes always raise before *)
(* the local compute call and never return a handle, for every op:        *)
(* NotImplementedError when their shapes broadcast, and the ValueError of *)
(* the broadcast check, which comes first, when they do not.              *)
C5_DifferentSplitsRaise ==
    (DifferentSplits /\ Done) =>
        \A r \in Ranks :
            /\ pc[r] = "raised"
            /\ IsNone(res[r])
            /\ err[r] = IF Broadcastable(xh[0].gshape, yh[0].gshape)
                        THEN "NotImplementedError" ELSE "ValueError"

C5_Witness ==
    /\ DifferentSplits
    /\ Done
    /\ nprocs > 1
    /\ Broadcastable(xh[0].gshape, yh[0].gshape)
    /\ err[0] = "NotImplementedError"

C9_RaisesBeforeAnyEffect ==
    \A r \in Ranks :
        pc[r] = "raised" => (oh[r] = call.oh0[r] /\ ncoll[r] = 0)

(* C10: a returned handle whose split axis is none holds the same local   *)
(* data on every process.                                                 *)
C10_UnsplitIsReplicated ==
    (call.op # "idle" /\ AllReturned /\ IsNone(ResH(0).split)) =>
        \A r \in Ranks : ResH(r).array = ResH(0).array

(* --------------------- claims on returned handles --------------------- *)
(* the data-model invariants of a logical tensor, given by its handles on *)
(* the ranks: the local data has the rank of the global shape, the split  *)
(* axis is an axis, the local extents are the global ones on every other  *)
(* axis and add up to the global one on the split axis                    *)
SatisfiesDataModel(h) ==
    \A r \in Ranks :
        /\ Len(h[r].array.shape) = Len(h[r].gshape)
        /\ IsNone(h[r].split) \/ Get(h[r].split) \in 0 .. (Len(h[r].gshape) - 1)
        /\ \A d \in 1 .. Len(h[r].gshape) :
              (IsNone(h[r].split) \/ d # Get(h[r].split) + 1) => h[r].array.shape[d] = h[r].gshape[d]
        /\ ~IsNone(h[r].split) =>
              SumSet({<<q, h[q].array.shape[Get(h[r].split) + 1]>> : q \in Ranks})
                 = h[r].gshape[Get(h[r].split) + 1]

(* C11: every handle returned by a unary op, binary op, reduction,        *)
(* argmin, transpose, tril or triu on inputs that satisfy the data-model  *)
(* invariants satisfies them again, a binary op between a split and an    *)
(* unsplit operand included.                                              *)
C11_ResultSatisfiesDataModel ==
    (/\ call.op \in {"unary", "binary", "reduce", "argmin", "transpose", "tri"}
     /\ AllReturned
     /\ SatisfiesDataModel(call.x0)
     /\ SatisfiesDataModel(call.y0)) =>
        SatisfiesDataModel(ResHandles)

(* C12: a handle returned by an operation that was given no out handle    *)
(* shares its data with no input handle, so that a later write into the   *)
(* returned handle leaves the values seen through the input handles as    *)
(* they were.                                                             *)
C12_ResultOwnsItsData ==
    \A r \in Ranks :
        /\ (call.out = "none" /\ pc[r] = "returned") => Get(res[r]).ref = "new"
        /\ pc[r] = "written" => (xh[r] = call.x0[r] /\ yh[r] = call.y0[r])

(* ------------------------- claims on transpose ------------------------ *)
(* the axes of the call as the caller reads them: the full reversal by    *)
(* default, a negative entry counted from the end                         *)
CallerAxes ==
    LET n == Len(xh[0].gshape)
    IN IF IsNone(call.axes) THEN [d \in 1 .. n |-> n - d]
       ELSE [d \in 1 .. Len(Get(call.axes)) |->
                IF Get(call.axes)[d] < 0 THEN Get(call.axes)[d] + n ELSE Get(call.axes)[d]]

ValidPermutation ==
    /\ Len(CallerAxes) = Len(xh[0].gshape)
    /\ {CallerAxes[d] : d \in 1 .. Len(CallerAxes)} = 0 .. (Len(xh[0].gshape) - 1)

TransposeOfTensor == call.op = "transpose" /\ call.t1 = "tensor" /\ call.t2 = "axes"

(* C13: for a valid permutation axes transpose returns a handle whose     *)
(* global shape at i is a's extent at axes[i] and whose split axis is the *)
(* position of a's split axis within axes (none for an unsplit a), so the *)
(* extent at the new split axis is the extent at the old one; it issues   *)
(* no collective call.                                                    *)
C13_TransposeShapeAndSplit ==
    \A r \in Ranks :
        (TransposeOfTensor /\ ValidPermutation /\ pc[r] \in {"returned", "raised"}) =>
            /\ pc[r] = "returned"
            /\ ncoll[r] = 0
            /\ Len(ResH(r).gshape) = Len(xh[r].gshape)
            /\ \A i \in 1 .. Len(xh[r].gshape) :
                  /\ ResH(r).gshape[i] = xh[r].gshape[CallerAxes[i] + 1]
                  /\ ResH(r).array.shape[i] = xh[r].array.shape[CallerAxes[i] + 1]
            /\ IsNone(xh[r].split) => IsNone(ResH(r).split)
            /\ ~IsNone(xh[r].split) =>
                  /\ ~IsNone(ResH(r).split)
                  /\ CallerAxes[Get(ResH(r).split) + 1] = Get(xh[r].split)
                  /\ ResH(r).gshape[Get(ResH(r).split) + 1] = xh[r].gshape[Get(xh[r].split) + 1]

C13_Witness ==
    /\ TransposeOfTensor
    /\ call.kind = "first"
    /\ nprocs > 1
    /\ AllReturned
    /\ call.axes = Some(<<-2, 2, 0>>)
    /\ xh[0].gshape = <<1, MaxTransExtent, MaxTransExtent>>
    /\ xh[0].split = Some(2)
    /\ ResH(0).split = Some(1)
    /\ ResH(0).gshape = <<MaxTransExtent, MaxTransExtent, 1>>

(* C14: transposing the result of transpose(t) again, both with the       *)
(* default axes, gives back t's global shape, split axis and element      *)
(* layout; transposing the result of a transpose with permutation p by    *)
(* the inverse of p gives back t's split axis and global shape.           *)
C14_TransposeBackRestores ==
    \A r \in Ranks :
        (TransposeOfTensor /\ call.kind = "back" /\ pc[r] \in {"returned", "raised"}) =>
            /\ pc[r] = "returned"
            /\ ResH(r).gshape = yh[r].gshape
            /\ ResH(r).split = yh[r].split
            /\ IsNone(call.axes) => ResH(r) = yh[r]

C14_Witness ==
    /\ TransposeOfTensor
    /\ call.kind = "back"
    /\ nprocs > 1
    /\ AllReturned
    /\ call.axes = Some(<<2, 0, 1>>)
    /\ yh[0].gshape = <<1, MaxTransExtent, MaxTransExtent>>
    /\ yh[0].split = Some(2)
    /\ xh[0].split = Some(1)
    /\ ResH(0).split = Some(2)
    /\ ResH(0).array = yh[0].array

(* C15: an axes argument whose length is not the rank of the tensor or    *)
(* whose entries, negative ones counted from the end, are no permutation  *)
(* of [0, rank) is rejected with a ValueError, whatever the split axis;   *)
(* no handle is returned for it.                                          *)
C15_InvalidAxesRejected ==
    \A r \in Ranks :
        (/\ TransposeOfTensor
         /\ call.kind = "first"
         /\ ~IsNone(call.axes)
         /\ ~ValidPermutation
         /\ pc[r] \in {"returned", "raised"}) =>
            /\ pc[r] = "raised"
            /\ err[r] = "ValueError"
            /\ IsNone(res[r])

(* ------------------- claims on the out handle of a reduction ---------- *)
(* the out shape a reduction call expects: (1,) for axis None, else the   *)
(* global shape with extent 1 at the reduced axis                         *)
ValidAxis ==
    IsNone(call.axis) \/ (Get(call.axis) >= -Len(xh[0].gshape) /\ Get(call.axis) < Len(xh[0].gshape))

ExpectedOutShape ==
    IF IsNone(CallAxis) THEN <<1>> ELSE [xh[0].gshape EXCEPT ![Get(CallAxis) + 1] = 1]

ReduceWithOut == call.op = "reduce" /\ call.out = "tensor" /\ ValidAxis

WrongOutShape == ReduceWithOut /\ call.oh0[0].gshape # ExpectedOutShape

(* C16: a reduction given an out handle whose shape is not the computed   *)
(* output shape can only raise: a process that has left the call has      *)
(* raised ValueError, no process issues the collective call, nothing is    *)
(* returned, and the out handle stays as it was passed in.                 *)
C16_WrongOutShapeRaises ==
    \A r \in Ranks :
        WrongOutShape =>
            /\ pc[r] \in {"called", "raised"}
            /\ pc[r] = "raised" => err[r] = "ValueError"
            /\ IsNone(res[r])
            /\ oh[r] = call.oh0[r]
            /\ ncoll[r] = 0

C16_Witness ==
    /\ WrongOutShape
    /\ nprocs > 1
    /\ \A r \in Ranks : pc[r] = "raised" /\ err[r] = "ValueError"
    /\ ~IsNone(xh[0].split)
    /\ CallAxis = xh[0].split
    /\ xh[0].array # xh[1].array

C18_UnaryOutMetadata ==
    \A r \in Ranks :
        (call.op = "unary" /\ call.out = "tensor" /\ IsNone(call.dt) /\ pc[r] = "returned") =>
            /\ oh[r].array # call.oh0[r].array
            /\ oh[r].dtype = promote_types(xh[r].dtype)
            /\ oh[r].split = xh[r].split
            /\ oh[r].device = xh[r].device
            /\ oh[r].comm = xh[r].comm

UnaryRejects(r) ==
    (pc[r] \in {"returned", "raised"} /\ (call.t1 # "tensor" \/ call.out = "nontensor")) =>
        /\ pc[r] = "raised"
        /\ err[r] = "TypeError"
        /\ IsNone(res[r])
        /\ oh[r] = call.oh0[r]

UnaryFresh(r) ==
    /\ pc[r] = "returned"
    /\ Get(res[r]).ref = "new"
    /\ ResH(r).gshape = xh[r].gshape
    /\ ResH(r).split = xh[r].split
    /\ ResH(r).device = xh[r].device
    /\ ResH(r).comm = xh[r].comm
    /\ ResH(r).dtype = promote_types(xh[r].dtype)
    /\ ResH(r).dtype \in {"float32", "float64"}
    /\ ResH(r).array.shape = xh[r].array.shape

(* C20 as stated: a unary op called without out on a tensor returns a     *)
(* fresh handle with x's global shape, split axis, device and             *)
(* communicator and dtype promote(x.dtype, float32), never an integer     *)
(* type; it raises TypeError before any computation if x is no tensor or  *)
(* out is neither None nor a tensor.                                      *)
C20_UnaryResult ==
    \A r \in Ranks :
        call.op = "unary" =>
            /\ UnaryRejects(r)
            /\ (call.t1 = "tensor" /\ call.out = "none" /\ pc[r] \in {"returned", "raised"}) => UnaryFresh(r)

(* C20 amended: the same for a unary op that is not given a dtype         *)
(* argument; abs and absolute, when given a dtype, return a handle of     *)
(* that dtype (an integer type if asked for), and raise TypeError for a   *)
(* dtype that is no heat type.                                            *)
C20_UnaryResultWithoutDtype ==
    \A r \in Ranks :
        call.op = "unary" =>
            /\ UnaryRejects(r)
            /\ (call.t1 = "tensor" /\ call.out = "none" /\ pc[r] \in {"returned", "raised"}) =>
                  /\ IsNone(call.dt) => UnaryFresh(r)
                  /\ call.dt = Some("nontype") => (pc[r] = "raised" /\ err[r] = "TypeError")
                  /\ (~IsNone(call.dt) /\ call.dt # Some("nontype")) =>
                        (pc[r] = "returned" /\ ResH(r).dtype = Get(call.dt))

C20_Witness ==
    /\ call.op = "unary"
    /\ call.kind = "sqrt"
    /\ call.out = "none"
    /\ nprocs > 1
    /\ AllReturned
    /\ xh[0].dtype = "int32"
    /\ ~IsNone(xh[0].split)
    /\ ResH(0).dtype = "float32"
    /\ ResH(0).split = xh[0].split
    /\ ResH(0).array # xh[0].array

(* ------------------- claims on the cast of __binary_op ---------------- *)
(* C19: the operand that does not define the output shape is the one      *)
(* cast: a scalar first operand is cast to the dtype of the second        *)
(* operand, otherwise the second operand is cast to the dtype of the      *)
(* first; the returned handle has the dtype of the operand that defines   *)
(* the shape, so the dtype depends on the order of the operands.          *)
C19_CastAndResultDtype ==
    \A r \in Ranks :
        (call.op = "binary" /\ pc[r] = "returned") =>
            IF call.t1 = "scalar"
            THEN /\ CastFirst(call.t1, xh[r], yh[r]).dtype = yh[r].dtype
                 /\ CastSecond(call.t1, xh[r], yh[r]) = yh[r]
                 /\ ResH(r).dtype = yh[r].dtype
                 /\ ResH(r).gshape = IF call.t2 = "scalar" THEN <<1>> ELSE yh[r].gshape
            ELSE /\ CastSecond(call.t1, xh[r], yh[r]).dtype = xh[r].dtype
                 /\ CastFirst(call.t1, xh[r], yh[r]) = xh[r]
                 /\ ResH(r).dtype = xh[r].dtype
                 /\ ResH(r).gshape = xh[r].gshape

C19_Witness ==
    /\ call.op = "binary"
    /\ call.t1 = "scalar"
    /\ call.t2 = "tensor"
    /\ nprocs > 1
    /\ AllReturned
    /\ xh[0].dtype = "int64"
    /\ yh[0].dtype = "float32"
    /\ ~IsNone(yh[0].split)
    /\ ResH(0).dtype = "float32"
    /\ ResH(0).gshape = yh[0].gshape

(* -------------------- claims on operand types of __binary_op ---------- *)
NotAnOperand(k) == k \notin {"tensor", "scalar"}

(* C21: a binary operation one of whose operands, first or second, is     *)
(* neither a tensor nor a numeric scalar raises TypeError on every        *)
(* process: it neither returns a handle nor raises another class of error *)
C21_BadOperandTypeError ==
    \A r \in Ranks :
        (/\ call.op = "binary"
         /\ NotAnOperand(call.t1) \/ NotAnOperand(call.t2)
         /\ pc[r] # "called") =>
            /\ pc[r] = "raised"
            /\ err[r] = "TypeError"
            /\ IsNone(res[r])

(* --------------------------- claims on equal -------------------------- *)
EqualOfTensors == call.op = "equal" /\ call.t1 = "tensor" /\ call.t2 = "tensor"

Answer(r) == Get(res[r]).value

Answered == \A r \in Ranks : pc[r] = "answered"

(* C22: equal on two tensors answers with the same boolean on every       *)
(* process, and that boolean is true exactly when the two global tensors  *)
(* have the same shape and the same elements, however each is split.      *)
C22_EqualIsGlobal ==
    (EqualOfTensors /\ Answered) =>
        \A r \in Ranks :
            /\ Answer(r) = Answer(0)
            /\ Answer(r) = (GlobalX = GlobalY)

(* --------------------------- claims on argmin ------------------------- *)
ArgminShape == IF IsNone(CallAxis) THEN <<1>> ELSE SetAt(xh[0].gshape, Get(CallAxis), 1)

(* the handles returned by the ranks make up one logical tensor of the    *)
(* shape of the output, partitioned as the communicator chunks it         *)
ArgminWellFormed ==
    /\ SatisfiesDataModel(ResHandles)
    /\ \A r \in Ranks :
          /\ ResH(r).gshape = ArgminShape
          /\ ResH(r).split = ResH(0).split
          /\ ResH(r).array.shape = chunk(ArgminShape, ResH(0).split, r, nprocs).lshape

(* C23: argmin along an axis returns, at each position of the output, the *)
(* index along that axis of the minimum of the global tensor, and argmin  *)
(* without an axis the index of the minimum in the flattened global       *)
(* tensor, whatever the split axis of the input; the returned handle      *)
(* satisfies the data-model invariants.                                   *)
C23_ArgminIsGlobal ==
    (call.op = "argmin" /\ AllReturned) =>
        /\ ArgminWellFormed
        /\ Assemble(ResHandles, ArgminShape, ResH(0).split) =
              IF IsNone(CallAxis) THEN ArgAll(GlobalX) ELSE ArgAxis(GlobalX, Get(CallAxis))

(* ----------------------- claims on commutativity ---------------------- *)
CommutativeOps == {"add", "mul", "eq", "ne"}

(* what the same operation does on rank r with the operands exchanged *)
Swapped(r) == binary_op(call.kind, call.t2, call.t1, yh[r], xh[r])

(* C24: add, mul, eq and ne are commutative over tensors and scalars: the *)
(* call with the operands exchanged raises the same class of error or     *)
(* returns a handle with the same values, dtype, global shape and split.  *)
C24_Commutative ==
    \A r \in Ranks :
        (call.op = "binary" /\ call.kind \in CommutativeOps /\ pc[r] # "called") =>
            /\ Swapped(r).err = err[r]
            /\ err[r] = "" =>
                  /\ Swapped(r).h.array = ResH(r).array
                  /\ Swapped(r).h.dtype = ResH(r).dtype
                  /\ Swapped(r).h.gshape = ResH(r).gshape
                  /\ Swapped(r).h.split = ResH(r).split

(* ---------------- claims on __tri_op beyond two dimensions ------------ *)
TriOfRank(n) == call.op = "tri" /\ call.t1 = "tensor" /\ Len(xh[0].gshape) = n

(* the triangular operator with the global k on every trailing matrix of  *)
(* the global input                                                       *)
GlobalTriangle ==
    LET g == xh[0].gshape
        n == Len(g)
    IN [shape |-> g,
        at |-> [i \in Idx(g) |-> IF Keeps(call.kind, call.k, i[n - 1], i[n]) THEN GlobalX.at[i] ELSE 0]]

(* k as the claim corrects it on rank r *)
ClaimedLocalK(r) ==
    LET n == Len(xh[0].gshape)
        offset == chunk(xh[0].gshape, xh[0].split, r, nprocs).offset
    IN IF xh[0].split = Some(n - 2) THEN call.k + offset
       ELSE IF xh[0].split = Some(n - 1) THEN call.k - offset
       ELSE call.k

(* C25: for a tensor of more than two dimensions, whatever its split,     *)
(* tril (triu) applies the triangular operator to every trailing matrix   *)
(* of the local data, with k + offset for a split along the second-to-    *)
(* last axis, k - offset along the last axis and k otherwise, so that the *)
(* assembled result is the triangular operator with the global k on every *)
(* trailing matrix of the global input; no collective call is issued.     *)
C25_TriangleOfSlices ==
    (TriOfRank(3) /\ pc[0] # "called") =>
        /\ AllReturned
        /\ \A r \in Ranks :
              /\ ncoll[r] = 0
              /\ ResH(r).gshape = xh[0].gshape
              /\ ResH(r).split = xh[0].split
              /\ \A i \in Idx(xh[r].array.shape) :
                    ResH(r).array.at[i] =
                       IF Keeps(call.kind, ClaimedLocalK(r), i[2], i[3]) THEN xh[r].array.at[i] ELSE 0
        /\ Assemble(ResHandles, xh[0].gshape, xh[0].split) = GlobalTriangle

C25_Witness ==
    /\ TriOfRank(3)
    /\ AllReturned
    /\ nprocs > 1
    /\ xh[0].gshape = <<MaxTriExtent - 1, MaxTriExtent, MaxTriExtent>>
    /\ xh[0].split = Some(1)
    /\ call.k = 1
    /\ ResH(nprocs - 1).array # xh[nprocs - 1].array
    /\ ResH(nprocs - 1).array # triangle(call.kind, xh[nprocs - 1].array, call.k)
    /\ \E i \in Idx(xh[nprocs - 1].array.shape) : i[1] = 1 /\ ResH(nprocs - 1).array.at[i] # xh[nprocs - 1].array.at[i]

(* C26: tril (triu) of a vector v of global length n returns a handle of  *)
(* global shape (n, n), split along axis 1 if v was split and unsplit     *)
(* otherwise, whose local data has shape (n, local length) and is the     *)
(* triangular operator with k minus the chunk offset on the local vector  *)
(* repeated n times; assembled, it is the triangular operator with k on   *)
(* the n x n matrix whose every row is v.                                 *)
C26_TriangleOfVector ==
    (TriOfRank(1) /\ pc[0] # "called") =>
        LET n == xh[0].gshape[1]
            split == IF IsNone(xh[0].split) THEN None ELSE Some(1)
        IN /\ AllReturned
           /\ \A r \in Ranks :
                 LET offset == chunk(xh[0].gshape, xh[0].split, r, nprocs).offset
                 IN /\ ResH(r).gshape = <<n, n>>
                    /\ ResH(r).split = split
                    /\ ResH(r).array.shape = <<n, xh[r].array.shape[1]>>
                    /\ \A i \in Idx(ResH(r).array.shape) :
                          ResH(r).array.at[i] =
                             IF Keeps(call.kind, call.k - offset, i[1], i[2]) THEN xh[r].array.at[<<i[2]>>] ELSE 0
           /\ Assemble(ResHandles, <<n, n>>, split) =
                 [shape |-> <<n, n>>,
                  at |-> [i \in Idx(<<n, n>>) |->
                            IF Keeps(call.kind, call.k, i[1], i[2]) THEN GlobalX.at[<<i[2]>>] ELSE 0]]

C26_Witness ==
    /\ TriOfRank(1)
    /\ AllReturned
    /\ nprocs > 1
    /\ xh[0].split = Some(0)
    /\ ResH(0).split = Some(1)
    /\ \E r \in Ranks :
          LET n == xh[0].gshape[1]
              repeated == expand(xh[r].array, n)
          IN /\ chunk(xh[0].gshape, xh[0].split, r, nprocs).offset > 0
             /\ ResH(r).array.shape = <<n, xh[r].array.shape[1]>>
             /\ xh[r].array.shape[1] < n
             /\ ResH(r).array # triangle(call.kind, repeated, call.k)
             /\ ResH(r).array # repeated
             /\ ResH(r).array # Zeros(repeated.shape)

(* ---------------------------- claims on clip -------------------------- *)
ClipNoBound == IsNone(call.amin) /\ IsNone(call.amax)

ClipBadType == call.t1 # "tensor" \/ call.out = "nontensor"

(* C27: clip with a tensor a, a tensor out and a bound set returns the    *)
(* handle out itself, holding the clamped values of a, whatever a holds;  *)
(* it raises TypeError when a or out is not a tensor and ValueError when  *)
(* neither bound is set, with nothing written.                            *)
C27_ClipReturnsOut ==
    \A r \in Ranks :
        (call.op = "clip" /\ call.out # "none" /\ pc[r] # "called") =>
            IF ClipBadType \/ ClipNoBound
            THEN /\ pc[r] = "raised"
                 /\ err[r] \in (IF ClipBadType THEN {"TypeError"} ELSE {})
                                 \cup (IF ClipNoBound THEN {"ValueError"} ELSE {})
                 /\ oh[r] = call.oh0[r]
            ELSE /\ pc[r] = "returned"
                 /\ Get(res[r]).ref = "out"
                 /\ ResH(r) = oh[r]
                 /\ oh[r].array = clamp(xh[r].array, call.amin, call.amax)

(* ------------------------ claims on input handles --------------------- *)
OpsWithInputs == {"unary", "binary", "reduce", "argmin", "clip", "copy", "transpose", "tri"}

(* the call is running or has just ended on rank r *)
InCall(r) == pc[r] \in {"called", "allreduce", "combined", "returned", "raised"}

(* C28: an operation called without an out handle leaves the local data,  *)
(* global shape, dtype, split, device and communicator of each of its     *)
(* input handles as they were before the call, on every process, the      *)
(* operand a binary operation casts included.                             *)
C28_InputsUntouched ==
    \A r \in Ranks :
        (call.op \in OpsWithInputs /\ call.out = "none" /\ InCall(r)) =>
            /\ xh[r] = call.x0[r]
            /\ yh[r] = call.y0[r]

C28_Witness ==
    /\ call.op = "binary"
    /\ call.t1 = "tensor"
    /\ call.t2 = "tensor"
    /\ nprocs > 1
    /\ AllReturned
    /\ call.x0[0].dtype = "int32"
    /\ call.y0[0].dtype = "float32"
    /\ ResH(0).dtype = "int32"
    /\ ResH(0).array # xh[0].array
    /\ ResH(0).array # yh[0].array
    /\ \A r \in Ranks : yh[r].dtype = "float32" /\ yh[r] = call.y0[r] /\ xh[r] = call.x0[r]

====
